---- MODULE Spec2Model ----
(***************************************************************************)
(* Register gateway of the Rehau Neasmart 2.0 gateway.                     *)
(*                                                                         *)
(*   CircuitBreaker, ThreadSafeDataBlock, ModbusManager                    *)
(*                                         src/src/modbus_manager.py       *)
(*   RetryPolicy, InMemoryFallback, DatabaseManager                        *)
(*                                         src/src/database.py             *)
(*   NeasmartModbusClient                  src/src/modbus_client.py        *)
(*   pack_dpt9001, unpack_dpt9001          src/src/dpt_9001.py             *)
(*   ZoneService                           src/src/services/zone_service.py*)
(*   DeviceService, the zone validators    src/src/services/device_service.py,*)
(*                                         src/src/api/zones.py            *)
(*                                                                         *)
(* Time is the wall clock in whole seconds (datetime.now / time.time),      *)
(* measured from the present moment: now is 0, a timestamp taken earlier   *)
(* is negative, and the passing of time (Tick) moves every stored          *)
(* timestamp back.  The code only compares the age of a timestamp with a   *)
(* threshold, so a timestamp older than its threshold is kept at the       *)
(* oldest value that still is.                                             *)
(* A call through the breaker around an arbitrary, possibly blocking        *)
(* operation is two steps: Call runs call() up to the invocation of the    *)
(* wrapped function, CallReturn runs it from the function's return or      *)
(* exception to the end.  A call that the breaker rejects is one step.     *)
(* Operations of the DatabaseManager hold its lock from start to end and   *)
(* are one step, and so are the gateway's reads and writes and the writes  *)
(* of the write-through client.                                            *)
(***************************************************************************)
EXTENDS Integers, Sequences, FiniteSets, TLC

\* ---- bounds of the model ------------------------------------------------
TickStep == 60
MaxFailures == 6
NumRegs == 2
MaxVal == 1
MaxErrors == 4
CodecWindow == 2
MaxId == 13
MaxAddress == 5000

\* ---- program constants --------------------------------------------------
failure_threshold == 5
recovery_timeout == 60
half_open_max_calls == 3
health_check_interval == 30
max_attempts == 3
max_consecutive_errors == 3
default_max_retries == 3
ZONE_ID_MULTIPLIER == 100
ZONE_BASE_ID_MULTIPLIER == 1200
ZONE_SETPOINT_ADDR_OFFSET == 1
ZONE_TEMP_ADDR_OFFSET == 2
ZONE_RH_ADDR_OFFSET == 10
GLOBAL_OP_MODE_ADDR == 1
GLOBAL_OP_STATE_ADDR == 2
DEHUMIDIFIERS_ADDR_OFFSET == 21
EXTRA_PUMPS_ADDR_OFFSET == 30

CLOSED == "closed"
OPEN == "open"
HALF_OPEN == "half_open"

Threads == {"t1", "t2"}
NoThread == "none"

\* registers of zone (1,1): state at 100, setpoint at 101, ...
Addrs == ZONE_ID_MULTIPLIER .. (ZONE_ID_MULTIPLIER + NumRegs - 1)
Vals == 0 .. MaxVal

\* datetime.now() and time.time()
now == 0

\* the oldest timestamps told apart: just past recovery_timeout, and at
\* health_check_interval
OldestFailure == now - (recovery_timeout + 1)
OldestCheck == now - health_check_interval

\* last_error_time is only recorded, never compared: a time before now
OldestError == now - TickStep

Max(a, b) == IF a >= b THEN a ELSE b

VARIABLES
    \* CircuitBreaker
    state, failure_count, last_failure_time, half_open_calls,
    cb_lock,            \* owner of CircuitBreaker._lock, or NoThread
    pc,                 \* per thread: "idle" or "in_func" (inside the wrapped function)
    \* DatabaseManager
    enable_fallback, connection_healthy, last_health_check,
    db,                 \* the durable SqliteDict: address -> value
    db_down,            \* environment: the durable layer raises on every access
    fb_data, fb_dirty,  \* InMemoryFallback._data, ._dirty
    startup,            \* DatabaseManager(...): "constructing", "running" (it
                        \* returned and the durable store was initialized),
                        \* "degraded" (it returned although the initialization
                        \* failed), "stopped" (it raised and the process exited)
    \* ThreadSafeDataBlock
    block_values,       \* the in-memory values of the pymodbus data block
    \* NeasmartModbusClient
    gateway_enabled,    \* config["gateway"]["enabled"]
    disable_write_through_on_error,
                        \* config["fallback"]["disable_write_through_on_error"]
    consecutive_errors, last_error_time,
    connected,          \* NeasmartModbusClient.connected
    \* history variables (not program state)
    ev,                 \* the handler completed by the last step, and its outcome
    \* history of the calls made through Call and CallReturn
    consec,             \* failed calls since the last successful call
    ho_succ,            \* successful calls since the breaker last entered HALF_OPEN
    open_cause,         \* why the breaker last went OPEN
    cleared,            \* since the breaker was last closed (or created), a
                        \* successful call in CLOSED found counted failures
    \* history of the sets made through Set and SetRange
    last_set,           \* address -> last value handed to set_register(s)
    outage,             \* addresses whose last set happened while db_down
    \* locks and the calls in flight under them
    db_lock,            \* owner of DatabaseManager._lock, or NoThread
    st,                 \* per thread: its get_registers or set_registers call
    mgr_lock,           \* owner of ModbusManager._lock, or NoThread
    gw,                 \* per thread: its position in a ModbusManager call
    \* the data block of the secondary slave
    block_secondary     \* the values of its ModbusSequentialDataBlock

cbVars == <<state, failure_count, last_failure_time, half_open_calls, cb_lock>>
cbHist == <<consec, ho_succ, open_cause, cleared>>
dbVars == <<enable_fallback, connection_healthy, last_health_check, db, fb_data,
            fb_dirty, startup, last_set, outage>>
wtVars == <<gateway_enabled, disable_write_through_on_error, consecutive_errors,
            last_error_time, connected>>
ccVars == <<db_lock, st, mgr_lock, gw, block_secondary>>
NoEntries == [a \in {} |-> 0]
vars == <<state, failure_count, last_failure_time, half_open_calls, cb_lock,
          pc, enable_fallback, connection_healthy, last_health_check, db,
          db_down, fb_data, fb_dirty, startup, block_values, ev, consec, ho_succ,
          open_cause, cleared, last_set, outage, gateway_enabled,
          disable_write_through_on_error, consecutive_errors, last_error_time,
          connected, db_lock, st, mgr_lock, gw, block_secondary>>

\* ---- handler records ----------------------------------------------------
CallReq == [op |-> "call", addr |-> 0, vals |-> <<>>, count |-> 0, update_db |-> FALSE]

\* What the handler completed by the last step did and returned; NoEvent
\* once its caller has taken the result (Return).  A step of the program or
\* of its environment is taken with no result pending, so every handler is
\* seen completing from every state the program reaches.
\* res: what the handler's caller sees: "ok" (it returned), "fail" (the wrapped
\*      function's exception), "circuit_open" (CircuitBreakerOpen), "db_error"
\*      (a DatabaseException)
\* cb: what CircuitBreaker.call did: "ok", "fail", "circuit_open", or "none"
\*      when the handler does not go through the breaker
\* invoked: the wrapped function was invoked
\* ret: the values the handler returned
\* synced: the handler's health check ran _sync_fallback_to_database
\* tries: the number of times a store operation ran its durable operation
\* nfail: the number of leading attempts the environment made fail
\* connects: the number of connections the write-through client attempted
\* max_retries: the max_retries handed to the write-through client
\* mirror: how the handler ran the write-through to the device: "none" (it has
\*      none), "inline_ok", "inline_failed", "inline_raised" (called inside
\*      the handler, before its return, with that outcome), "dispatched"
\*      (handed to a task or thread of its own)
\* input: the kind of float handed to the codec: "number" (finite, vals holds
\*      it in hundredths), "nan", "inf", "-inf"; "none" for other handlers
NoEvent ==
    [op |-> "none", addr |-> 0, vals |-> <<>>, count |-> 0, update_db |-> FALSE,
     res |-> "ok", cb |-> "none", invoked |-> FALSE, ret |-> <<>>,
     synced |-> FALSE, tries |-> 0, nfail |-> 0, connects |-> 0,
     max_retries |-> 0, mirror |-> "none", input |-> "none"]

Event(r, res, cb, invoked, ret, synced) ==
    [op |-> r.op, addr |-> r.addr, vals |-> r.vals, count |-> r.count,
     update_db |-> r.update_db, res |-> res, cb |-> cb, invoked |-> invoked,
     ret |-> ret, synced |-> synced, tries |-> 0, nfail |-> 0, connects |-> 0,
     max_retries |-> 0, mirror |-> "none", input |-> "none"]

Idle == ev = NoEvent

\* a thread that is in no call made under a lock
NoCall == [at |-> "idle"]

\* ---- CircuitBreaker -----------------------------------------------------
\* A breaker value C is [state, failure_count, last_failure_time,
\* half_open_calls]; last_failure_time is <<>> for None.
Breaker ==
    [state |-> state, failure_count |-> failure_count,
     last_failure_time |-> last_failure_time, half_open_calls |-> half_open_calls]

\* call() that does not take the lock
LockFree_unlocked(t) == TRUE

\* with self._lock: (threading.RLock, never re-entered by its owner here)
LockFree(t) == cb_lock = NoThread

should_attempt_reset(C) ==
    IF C.last_failure_time = <<>>
    THEN TRUE
    ELSE now - C.last_failure_time[1] > recovery_timeout

\* call() in OPEN before the recovery timeout: raise CircuitBreakerOpen
rejects(C) == C.state = OPEN /\ ~should_attempt_reset(C)

\* after the recovery timeout an OPEN breaker is closed again at once
admit_closing(C) ==
    IF C.state = OPEN
    THEN [C EXCEPT !.state = CLOSED, !.failure_count = 0]
    ELSE C

\* a call admitted in OPEN leaves the breaker OPEN
admit_no_trial(C) == C

\* call(), up to the invocation of func, when it does not raise
admit(C) ==
    IF C.state = OPEN
    THEN [C EXCEPT !.state = HALF_OPEN, !.half_open_calls = 0]
    ELSE C

\* one success more than configured is needed to close
on_success_gt(C) ==
    IF C.state = HALF_OPEN
    THEN IF C.half_open_calls + 1 > half_open_max_calls
         THEN [C EXCEPT !.half_open_calls = @ + 1, !.state = CLOSED, !.failure_count = 0]
         ELSE [C EXCEPT !.half_open_calls = @ + 1]
    ELSE [C EXCEPT !.failure_count = 0]

\* a success in CLOSED leaves the failures counted
on_success_no_reset(C) ==
    IF C.state = HALF_OPEN
    THEN IF C.half_open_calls + 1 >= half_open_max_calls
         THEN [C EXCEPT !.half_open_calls = @ + 1, !.state = CLOSED, !.failure_count = 0]
         ELSE [C EXCEPT !.half_open_calls = @ + 1]
    ELSE C

\* closing keeps the failures counted
on_success_keeps_count(C) ==
    IF C.state = HALF_OPEN
    THEN IF C.half_open_calls + 1 >= half_open_max_calls
         THEN [C EXCEPT !.half_open_calls = @ + 1, !.state = CLOSED]
         ELSE [C EXCEPT !.half_open_calls = @ + 1]
    ELSE [C EXCEPT !.failure_count = 0]

on_success(C) ==
    IF C.state = HALF_OPEN
    THEN IF C.half_open_calls + 1 >= half_open_max_calls
         THEN [C EXCEPT !.half_open_calls = @ + 1, !.state = CLOSED, !.failure_count = 0]
         ELSE [C EXCEPT !.half_open_calls = @ + 1]
    ELSE [C EXCEPT !.failure_count = 0]

\* the threshold test is strict
on_failure_gt(C) ==
    LET F == [C EXCEPT !.failure_count = @ + 1, !.last_failure_time = <<now>>]
    IN  IF F.state = HALF_OPEN
        THEN [F EXCEPT !.state = OPEN]
        ELSE IF F.failure_count > failure_threshold
             THEN [F EXCEPT !.state = OPEN]
             ELSE F

\* a failure in HALF_OPEN is only counted
on_failure_no_reopen(C) ==
    LET F == [C EXCEPT !.failure_count = @ + 1, !.last_failure_time = <<now>>]
    IN  IF F.state # HALF_OPEN /\ F.failure_count >= failure_threshold
        THEN [F EXCEPT !.state = OPEN]
        ELSE F

\* a failure in HALF_OPEN also clears the half-open success counter
on_failure_clears(C) ==
    LET F == [C EXCEPT !.failure_count = @ + 1, !.last_failure_time = <<now>>]
    IN  IF F.state = HALF_OPEN
        THEN [F EXCEPT !.state = OPEN, !.half_open_calls = 0]
        ELSE IF F.failure_count >= failure_threshold
             THEN [F EXCEPT !.state = OPEN]
             ELSE F

\* the breaker opens one failure early
on_failure_early(C) ==
    LET F == [C EXCEPT !.failure_count = @ + 1, !.last_failure_time = <<now>>]
    IN  IF F.state = HALF_OPEN
        THEN [F EXCEPT !.state = OPEN]
        ELSE IF F.failure_count + 1 >= failure_threshold
             THEN [F EXCEPT !.state = OPEN]
             ELSE F

on_failure(C) ==
    LET F == [C EXCEPT !.failure_count = @ + 1, !.last_failure_time = <<now>>]
    IN  IF F.state = HALF_OPEN
        THEN [F EXCEPT !.state = OPEN]
        ELSE IF F.failure_count >= failure_threshold
             THEN [F EXCEPT !.state = OPEN]
             ELSE F

\* call(), from the return (ok) or the exception (~ok) of func to the end
finish(C, ok) == IF ok THEN on_success(C) ELSE on_failure(C)

\* the primed breaker variables are those of C
BreakerBecomes(C) ==
    /\ state' = C.state
    /\ failure_count' = C.failure_count
    /\ last_failure_time' = C.last_failure_time
    /\ half_open_calls' = C.half_open_calls

\* history of a call that entered: admitted from the breaker as it is now
Entered == IF state = OPEN THEN 0 ELSE ho_succ

\* history of a call that finished with outcome ok from breaker C, where
\* entered is the number of half-open successes counted when it was admitted
Counted(C, ok, entered) ==
    /\ consec' = IF ok THEN 0 ELSE consec + 1
    /\ ho_succ' = IF ok /\ C.state = HALF_OPEN THEN entered + 1 ELSE entered
    /\ open_cause' = IF finish(C, ok).state = OPEN /\ C.state = CLOSED
                     THEN "threshold"
                     ELSE IF finish(C, ok).state = OPEN /\ C.state = HALF_OPEN
                          THEN "half_open"
                          ELSE open_cause
    /\ cleared' = IF ok /\ C.state = CLOSED
                  THEN cleared \/ C.failure_count > 0
                  ELSE IF finish(C, ok).state = CLOSED /\ C.state = HALF_OPEN
                       THEN FALSE
                       ELSE cleared

\* ---- the breaker around an arbitrary operation ---------------------------
\* call(), up to the invocation of func
Call(t) ==
    /\ Idle
    /\ pc[t] = "idle"
    /\ LockFree(t)
    /\ ~rejects(Breaker)
    /\ BreakerBecomes(admit(Breaker))
    /\ ho_succ' = Entered
    /\ cb_lock' = t
    /\ pc' = [pc EXCEPT ![t] = "in_func"]
    /\ UNCHANGED <<ccVars, wtVars, consec, open_cause, cleared, dbVars, db_down, block_values, ev>>

CallRejected(t) ==
    /\ Idle
    /\ pc[t] = "idle"
    /\ LockFree(t)
    /\ rejects(Breaker)
    /\ ev' = Event(CallReq, "circuit_open", "circuit_open", FALSE, <<>>, FALSE)
    /\ UNCHANGED <<ccVars, wtVars, cbVars, cbHist, pc, dbVars, db_down, block_values>>

\* call(), from the return or the exception of func to the end
CallReturn(t) ==
    /\ Idle
    /\ pc[t] = "in_func"
    /\ \E ok \in BOOLEAN :
          /\ ok \/ failure_count < MaxFailures
          /\ BreakerBecomes(finish(Breaker, ok))
          /\ Counted(Breaker, ok, ho_succ)
          /\ ev' = Event(CallReq, IF ok THEN "ok" ELSE "fail",
                         IF ok THEN "ok" ELSE "fail", TRUE, <<>>, FALSE)
    /\ cb_lock' = NoThread
    /\ pc' = [pc EXCEPT ![t] = "idle"]
    /\ UNCHANGED <<ccVars, wtVars, dbVars, db_down, block_values>>

\* call(), from the exception of func to the end, when failure_count has
\* reached the bound of the model: the failure is handled as any other, but
\* counted no further (the breaker is beyond its threshold, where counts are
\* not told apart), and the histories of the calls stay as they are
CallReturnBeyond(t) ==
    /\ Idle
    /\ pc[t] = "in_func"
    /\ failure_count >= MaxFailures
    /\ BreakerBecomes([on_failure(Breaker) EXCEPT !.failure_count = failure_count])
    /\ ev' = Event(CallReq, "fail", "fail", TRUE, <<>>, FALSE)
    /\ cb_lock' = NoThread
    /\ pc' = [pc EXCEPT ![t] = "idle"]
    /\ UNCHANGED <<ccVars, wtVars, cbHist, dbVars, db_down, block_values>>

\* the caller takes the result of the handler that completed
Return ==
    /\ ~Idle
    /\ ev' = NoEvent
    /\ UNCHANGED <<ccVars, wtVars, cbVars, cbHist, pc, dbVars, db_down, block_values>>

\* TickStep seconds pass
Tick ==
    /\ Idle
    /\ last_failure_time' =
          IF last_failure_time = <<>>
          THEN <<>>
          ELSE <<Max(last_failure_time[1] - TickStep, OldestFailure)>>
    /\ last_health_check' = Max(last_health_check - TickStep, OldestCheck)
    /\ last_error_time' = Max(last_error_time - TickStep, OldestError)
    /\ UNCHANGED <<gateway_enabled, disable_write_through_on_error,
                   consecutive_errors, connected>>
    /\ UNCHANGED <<ccVars, state, failure_count, half_open_calls, cb_lock, cbHist, pc,
                   enable_fallback, connection_healthy, db, fb_data, fb_dirty,
                   startup, last_set, outage, db_down, block_values, ev>>

\* ---- InMemoryFallback ------------------------------------------------------
\* A store value S is [healthy, last, db, fb, dirty]: _connection_healthy,
\* _last_health_check, the durable SqliteDict, InMemoryFallback._data and
\* InMemoryFallback._dirty.  The durable SqliteDict was created with every
\* register set to 0 and connected at construction, so self._db is never None
\* and never empty here.
Store ==
    [healthy |-> connection_healthy, last |-> last_health_check, db |-> db,
     fb |-> fb_data, dirty |-> fb_dirty]

Range(start, n) == start .. (start + n - 1)

\* an address without an entry is answered with something else than the default
fb_get_no_default(S, key, default) ==
    IF key \in DOMAIN S.fb THEN S.fb[key] ELSE default + 1

fb_get(S, key, default) ==
    IF key \in DOMAIN S.fb THEN S.fb[key] ELSE default

fb_get_range(S, start, count) ==
    [i \in 1..count |-> fb_get(S, start + i - 1, 0)]

fb_set_range(S, start, values) ==
    [S EXCEPT !.fb = [a \in (DOMAIN S.fb) \cup Range(start, Len(values)) |->
                         IF a \in Range(start, Len(values))
                         THEN values[a - start + 1]
                         ELSE S.fb[a]],
              !.dirty = TRUE]

fb_set(S, key, value) == fb_set_range(S, key, <<value>>)

\* ---- DatabaseManager -------------------------------------------------------
\* the durable layer: self._db.get(key, 0) and self._db[key] = value
db_get_range(S, start, count) ==
    [i \in 1..count |-> IF start + i - 1 \in DOMAIN S.db THEN S.db[start + i - 1] ELSE 0]

db_set_range(S, start, values) ==
    [S EXCEPT !.db = [a \in DOMAIN S.db |->
                         IF a \in Range(start, Len(values))
                         THEN values[a - start + 1]
                         ELSE S.db[a]]]

\* the resync clears the dirty flag and writes nothing
sync_fallback_to_database_lost(S) ==
    IF ~enable_fallback \/ ~S.dirty
    THEN S
    ELSE [S EXCEPT !.dirty = FALSE]

sync_fallback_to_database(S) ==
    IF ~enable_fallback \/ ~S.dirty
    THEN S
    ELSE [S EXCEPT !.db = [a \in DOMAIN S.db |->
                              IF a \in DOMAIN S.fb THEN S.fb[a] ELSE S.db[a]],
                   !.dirty = FALSE]

\* probe_ok: the probe self._db.get(0, 0) does not raise
check_connection_health(S, probe_ok) ==
    IF now - S.last < health_check_interval
    THEN S
    ELSE IF probe_ok
         THEN sync_fallback_to_database([S EXCEPT !.last = now, !.healthy = TRUE])
         ELSE [S EXCEPT !.last = now, !.healthy = FALSE]

RanSync(S, probe_ok) ==
    /\ now - S.last >= health_check_interval
    /\ probe_ok
    /\ enable_fallback
    /\ S.dirty

\* The inputs of one store operation that come from the environment:
\* pf: the health-check probe raises; nfail: the number of leading attempts
\* on which the durable operation raises.  While db_down every access raises.
Envs == [pf : BOOLEAN, nfail : 0..max_attempts]

Calm == [pf |-> FALSE, nfail |-> 0]

\* the inputs that can make a difference to an operation on store S: the probe
\* is made only when the health check is due, and an attempt on the durable
\* layer is made only when it is believed healthy
EnvsAt(S) ==
    {e \in Envs :
        /\ e.pf => (now - S.last >= health_check_interval /\ ~db_down)
        /\ e.nfail > 0 => (~db_down /\ ~e.pf
                              /\ (S.healthy \/ now - S.last >= health_check_interval))}

ProbeOk(e) == ~db_down /\ ~e.pf

\* the attempt (1..max_attempts) on which the durable operation succeeds, 0 if none
SucceedsAt(e) ==
    IF db_down \/ e.nfail >= max_attempts THEN 0 ELSE e.nfail + 1

\* _execute_with_retry: where the result comes from.  The retry loop takes
\* less than a second, so only its first health check can pass the rate
\* limit; H is the store after that check.
\*   "db": an attempt ran the operation on the durable layer
\*   "fallback": None is returned and the caller goes to the fallback
\*   "raise": DatabaseOperationError
\* when every attempt has failed None is returned, fallback or not
execute_with_retry_silent(H, e) ==
    IF H.healthy /\ SucceedsAt(e) > 0
    THEN "db"
    ELSE "fallback"

\* the first failed attempt is the last
execute_with_retry_once(H, e) ==
    IF H.healthy /\ SucceedsAt(e) = 1
    THEN "db"
    ELSE IF enable_fallback THEN "fallback" ELSE "raise"

execute_with_retry(H, e) ==
    IF H.healthy /\ SucceedsAt(e) > 0
    THEN "db"
    ELSE IF enable_fallback THEN "fallback" ELSE "raise"

\* _execute_with_retry: the number of iterations of its loop that ran the
\* durable operation: none while the layer is believed unhealthy, else up to
\* the first that succeeds, and max_attempts if none does
attempts(H, e) ==
    IF ~H.healthy
    THEN 0
    ELSE IF SucceedsAt(e) > 0 THEN SucceedsAt(e) ELSE max_attempts

\* The result of a store operation: the store afterwards, res ("ok" or
\* "raise"), the returned values, whether the resync ran, the path taken, and
\* the number of attempts on the durable layer.
Result(S, res, ret, synced, path) ==
    [S |-> S, res |-> res, ret |-> ret, synced |-> synced, path |-> path,
     tries |-> 0]

get_registers(S, start_address, count, e) ==
    LET H == check_connection_health(S, ProbeOk(e))
        path == execute_with_retry(H, e)
        synced == RanSync(S, ProbeOk(e))
        R == CASE path = "db" ->
                    Result(H, "ok", db_get_range(H, start_address, count), synced, path)
               [] path = "fallback" ->
                    Result(H, "ok", fb_get_range(H, start_address, count), synced, path)
               [] OTHER -> Result(H, "raise", <<>>, synced, path)
    IN  [R EXCEPT !.tries = attempts(H, e)]

get_register(S, address, e) == get_registers(S, address, 1, e)

\* values stored in the durable layer do not go to the fallback as well
set_registers_durable_only(S, start_address, values, e) ==
    LET H == check_connection_health(S, ProbeOk(e))
        path == execute_with_retry(H, e)
        synced == RanSync(S, ProbeOk(e))
        R == CASE path = "db" ->
                    Result(db_set_range(H, start_address, values),
                           "ok", <<>>, synced, path)
               [] path = "fallback" ->
                    Result(fb_set_range(H, start_address, values), "ok", <<>>, synced, path)
               [] OTHER -> Result(H, "raise", <<>>, synced, path)
    IN  [R EXCEPT !.tries = attempts(H, e)]

\* _set_range returns None, as does a failed _execute_with_retry, so with the
\* fallback enabled the values always go to the fallback as well
set_registers(S, start_address, values, e) ==
    LET H == check_connection_health(S, ProbeOk(e))
        path == execute_with_retry(H, e)
        synced == RanSync(S, ProbeOk(e))
        R == CASE path = "db" ->
                    Result(IF enable_fallback
                           THEN fb_set_range(db_set_range(H, start_address, values),
                                             start_address, values)
                           ELSE db_set_range(H, start_address, values),
                           "ok", <<>>, synced, path)
               [] path = "fallback" ->
                    Result(fb_set_range(H, start_address, values), "ok", <<>>, synced, path)
               [] OTHER -> Result(H, "raise", <<>>, synced, path)
    IN  [R EXCEPT !.tries = attempts(H, e)]

set_register(S, address, value, e) == set_registers(S, address, <<value>>, e)

\* the primed store variables are those of S
StoreBecomes(S) ==
    /\ connection_healthy' = S.healthy
    /\ last_health_check' = S.last
    /\ db' = S.db
    /\ fb_data' = S.fb
    /\ fb_dirty' = S.dirty
    /\ UNCHANGED <<enable_fallback, startup>>

\* history of the values set: sets is a set of <<start, values>>
Recorded(sets) ==
    /\ last_set' = [a \in (DOMAIN last_set) \cup
                          UNION {Range(w[1], Len(w[2])) : w \in sets} |->
                      IF \E w \in sets : a \in Range(w[1], Len(w[2]))
                      THEN LET w == CHOOSE x \in sets : a \in Range(x[1], Len(x[2]))
                           IN  w[2][a - w[1] + 1]
                      ELSE last_set[a]]
    /\ outage' = IF db_down
                 THEN outage \cup UNION {Range(w[1], Len(w[2])) : w \in sets}
                 ELSE outage \ UNION {Range(w[1], Len(w[2])) : w \in sets}

\* ---- the store called directly ---------------------------------------------
\* the requests on registers that all exist: a read of count registers from
\* addr (one register for "get"), a write of vals from addr (one for "set")
ReadReqs(op) ==
    {r \in [op : {op}, addr : Addrs, vals : {<<>>},
            count : IF op = "get" THEN {1} ELSE 1..NumRegs, update_db : BOOLEAN] :
        Range(r.addr, r.count) \subseteq Addrs}

WriteReqs(op) ==
    {r \in {[op |-> op, addr |-> a, vals |-> w, count |-> Len(w), update_db |-> FALSE] :
               a \in Addrs,
               w \in UNION {[1..k -> Vals] : k \in IF op = "set" THEN {1} ELSE 1..NumRegs}} :
        Range(r.addr, r.count) \subseteq Addrs}

StoreEvent(r, R, e) ==
    [Event(r, IF R.res = "ok" THEN "ok" ELSE "db_error", "none", FALSE,
           R.ret, R.synced) EXCEPT !.tries = R.tries, !.nfail = e.nfail]

StoreRead(t, r, e) ==
    LET R == IF r.op = "get"
             THEN get_register(Store, r.addr, e)
             ELSE get_registers(Store, r.addr, r.count, e)
    IN  /\ Idle
        /\ pc[t] = "idle"
        /\ StoreBecomes(R.S)
        /\ ev' = StoreEvent(r, R, e)
        /\ UNCHANGED <<ccVars, wtVars, cbVars, cbHist, pc, db_down, block_values,
                       last_set, outage>>

StoreWrite(t, r, e) ==
    LET R == IF r.op = "set"
             THEN set_register(Store, r.addr, r.vals[1], e)
             ELSE set_registers(Store, r.addr, r.vals, e)
    IN  /\ Idle
        /\ pc[t] = "idle"
        /\ StoreBecomes(R.S)
        /\ ev' = StoreEvent(r, R, e)
        /\ IF R.res = "ok"
           THEN Recorded({<<r.addr, r.vals>>})
           ELSE UNCHANGED <<last_set, outage>>
        /\ UNCHANGED <<ccVars, wtVars, cbVars, cbHist, pc, db_down, block_values>>

Get(t) ==
    \E r \in ReadReqs("get"), e \in EnvsAt(Store) : ~r.update_db /\ StoreRead(t, r, e)

GetRange(t) ==
    \E r \in ReadReqs("get_range"), e \in EnvsAt(Store) : ~r.update_db /\ StoreRead(t, r, e)

Set(t) ==
    \E r \in WriteReqs("set"), e \in EnvsAt(Store) : StoreWrite(t, r, e)

SetRange(t) ==
    \E r \in WriteReqs("set_range"), e \in EnvsAt(Store) : StoreWrite(t, r, e)

\* the durable layer starts to fail, and recovers
DbFail ==
    /\ Idle
    /\ ~db_down
    /\ db_down' = TRUE
    /\ UNCHANGED <<ccVars, wtVars, cbVars, cbHist, pc, dbVars, block_values, ev>>

DbRecover ==
    /\ Idle
    /\ db_down
    /\ db_down' = FALSE
    /\ UNCHANGED <<ccVars, wtVars, cbVars, cbHist, pc, dbVars, block_values, ev>>

\* ---- the store called from several threads ---------------------------------
\* get_registers and set_registers run inside "with self._lock:" (the RLock
\* made in __init__).  A call in flight is st[t]:
\*   at: "waiting" (called, not yet inside the with), "locked" (inside)
\*   r, e: the request, and the inputs from the environment
\*   S0: the store the call found when it entered
\*   path: where _execute_with_retry takes it
\*   i: the registers of the range done so far by _get_range or _set_range
\*   acc: the values _get_range has read so far

\* a with that does not wait for the lock
DbLockFree_unlocked(t) == TRUE

\* with self._lock: the RLock is free or held by the caller itself
DbLockFree(t) == db_lock \in {NoThread, t}

RangeReqs == {r \in ReadReqs("get_range") : ~r.update_db} \cup WriteReqs("set_range")

\* no call holds the lock of the store
Unlocked == \A t \in Threads : st[t].at # "locked"

\* get_registers(...) or set_registers(...) is called
StoreCall(t) ==
    \E r \in RangeReqs :
        /\ Idle
        /\ pc[t] = "idle"
        /\ st[t] = NoCall
        /\ st' = [st EXCEPT ![t] = [at |-> "waiting", r |-> r]]
        /\ UNCHANGED <<db_lock, mgr_lock, gw, block_secondary, wtVars, cbVars, cbHist, pc, dbVars,
                       db_down, block_values, ev>>

\* with self._lock: entered; _execute_with_retry makes its health check
StoreEnter(t) ==
    \E e \in EnvsAt(Store) :
        LET H == check_connection_health(Store, ProbeOk(e))
        IN  /\ Idle
            /\ st[t].at = "waiting"
            /\ DbLockFree(t)
            /\ db_lock' = t
            /\ StoreBecomes(H)
            /\ st' = [st EXCEPT ![t] =
                         [at |-> "locked", r |-> st[t].r, e |-> e, S0 |-> Store,
                          path |-> execute_with_retry(H, e), i |-> 0, acc |-> <<>>]]
            /\ UNCHANGED <<mgr_lock, gw, block_secondary, wtVars, cbVars, cbHist, pc, db_down,
                           block_values, ev, last_set, outage>>

\* _get_range, _set_range: the next register of the range, on the durable layer
StoreStep(t) ==
    LET c == st[t]
    IN  /\ Idle
        /\ c.at = "locked"
        /\ c.path = "db"
        /\ c.i < c.r.count
        /\ IF c.r.op = "get_range"
           THEN /\ st' = [st EXCEPT ![t].i = @ + 1,
                                    ![t].acc = Append(@, db[c.r.addr + c.i])]
                /\ UNCHANGED db
           ELSE /\ st' = [st EXCEPT ![t].i = @ + 1]
                /\ db' = [db EXCEPT ![c.r.addr + c.i] = c.r.vals[c.i + 1]]
        /\ UNCHANGED <<db_lock, mgr_lock, gw, block_secondary, wtVars, cbVars, cbHist, pc,
                       enable_fallback, connection_healthy, last_health_check,
                       fb_data, fb_dirty, startup, last_set, outage, db_down,
                       block_values, ev>>

\* the rest of the call, and the end of the with: the fallback is read or
\* written in one step under its own lock
StoreExit(t) ==
    LET c == st[t]
        synced == RanSync(c.S0, ProbeOk(c.e))
        R0 == CASE c.path = "raise" -> Result(Store, "raise", <<>>, synced, c.path)
                [] c.r.op = "get_range" ->
                     Result(Store, "ok",
                            IF c.path = "db"
                            THEN c.acc
                            ELSE fb_get_range(Store, c.r.addr, c.r.count),
                            synced, c.path)
                [] OTHER ->
                     Result(IF c.path = "db" /\ ~enable_fallback
                            THEN Store
                            ELSE fb_set_range(Store, c.r.addr, c.r.vals),
                            "ok", <<>>, synced, c.path)
        R == [R0 EXCEPT !.tries = attempts(check_connection_health(c.S0, ProbeOk(c.e)), c.e)]
    IN  /\ Idle
        /\ c.at = "locked"
        /\ c.path = "db" => c.i = c.r.count
        /\ StoreBecomes(R.S)
        /\ ev' = StoreEvent(c.r, R, c.e)
        /\ IF R.res = "ok" /\ c.r.op = "set_range"
           THEN Recorded({<<c.r.addr, c.r.vals>>})
           ELSE UNCHANGED <<last_set, outage>>
        /\ db_lock' = NoThread
        /\ st' = [st EXCEPT ![t] = NoCall]
        /\ UNCHANGED <<mgr_lock, gw, block_secondary, wtVars, cbVars, cbHist, pc, db_down, block_values>>

\* ---- ThreadSafeDataBlock ---------------------------------------------------
\* super().setValues / super().getValues: the in-memory list of the data block
block_set(B, address, values) ==
    [a \in DOMAIN B |-> IF a \in Range(address, Len(values))
                        THEN values[a - address + 1]
                        ELSE B[a]]

block_get(B, address, count) ==
    [i \in 1..count |-> IF address + i - 1 \in DOMAIN B THEN B[address + i - 1] ELSE 0]

\* setValues: the in-memory values, then the store; a store error is logged
setValues(S, address, values, e) == set_registers(S, address, values, e)

\* getValues: the store; on a store error the in-memory values
getValues(S, B, address, count, e) ==
    LET R == get_registers(S, address, count, e)
    IN  IF R.res = "ok"
        THEN R
        ELSE Result(R.S, "ok", block_get(B, address, count), R.synced, "block")

\* ---- ModbusManager ---------------------------------------------------------
is_zone_register(address) ==
    IF ~(100 <= address /\ address < 4900)
    THEN FALSE
    ELSE LET offset == address % ZONE_ID_MULTIPLIER
         IN  IF offset \notin {0, ZONE_SETPOINT_ADDR_OFFSET, ZONE_TEMP_ADDR_OFFSET,
                               ZONE_RH_ADDR_OFFSET}
             THEN FALSE
             ELSE LET base_addr == address - offset
                      zone_id_part == (base_addr % ZONE_BASE_ID_MULTIPLIER)
                                          \div ZONE_ID_MULTIPLIER
                      base_id_part == base_addr \div ZONE_BASE_ID_MULTIPLIER
                  IN  /\ 1 <= zone_id_part /\ zone_id_part <= 12
                      /\ 0 <= base_id_part /\ base_id_part < 4

\* dpt_9001.unpack_dpt9001, in hundredths: mantissa * 2^exponent
unpack_dpt9001(value) ==
    LET h == (value \div 256) % 256
        l == value % 256
        m == (h % 8) * 256 + l
        mantissa == IF (h \div 128) % 2 = 1 THEN m - 2048 ELSE m
        exponent == (h \div 8) % 16
    IN  mantissa * (2 ^ exponent)

is_invalid(address, original_value) ==
    IF address \in {GLOBAL_OP_STATE_ADDR, GLOBAL_OP_MODE_ADDR}
    THEN original_value = 0
    ELSE IF is_zone_register(address)
         THEN LET offset == address % ZONE_ID_MULTIPLIER
              IN  CASE offset = 0 -> original_value = 0
                    [] offset = ZONE_SETPOINT_ADDR_OFFSET ->
                          ~(500 <= unpack_dpt9001(original_value)
                              /\ unpack_dpt9001(original_value) <= 4000)
                    [] offset = ZONE_TEMP_ADDR_OFFSET ->
                          unpack_dpt9001(original_value) = 0
                    [] offset = ZONE_RH_ADDR_OFFSET -> original_value = 0
                    [] OTHER -> FALSE
         ELSE FALSE

\* _validate_and_filter_read_data: the store afterwards and the values kept
validate_and_filter_read_data(S, address, values, e) ==
    IF Len(values) # 1 \/ ~is_invalid(address, values[1])
    THEN Result(S, "ok", values, FALSE, "read")
    ELSE LET C == get_registers(S, address, 1, e)
         IN  IF C.res = "ok" /\ C.ret[1] # values[1]
             THEN Result(C.S, "ok", C.ret, C.synced, "cache")
             ELSE Result(C.S, "ok", values, C.synced, "read")

\* read_registers after CircuitBreakerOpen: zeros instead of the store's values
read_registers_open_zeros(S, r, e) ==
    Result(S, "ok", [i \in 1..r.count |-> 0], FALSE, "none")

\* read_registers after CircuitBreakerOpen: the values of the store
read_registers_open(S, r, e) == get_registers(S, r.addr, r.count, e)

\* the values read are stored whatever update_db is
read_registers_ok_persisting(S, B, r, e) ==
    LET G == getValues(S, B, r.addr, r.count, e)
        V == validate_and_filter_read_data(G.S, r.addr, G.ret, e)
        W == set_registers(V.S, r.addr, V.ret, e)
    IN  Result(W.S, W.res, IF W.res = "ok" THEN V.ret ELSE <<>>,
               G.synced \/ V.synced \/ W.synced, "read")

\* read_registers after a successful _read: the values read, validated and,
\* if update_db, stored; an error of that store operation is raised
read_registers_ok(S, B, r, e) ==
    LET G == getValues(S, B, r.addr, r.count, e)
        V == validate_and_filter_read_data(G.S, r.addr, G.ret, e)
        W == set_registers(V.S, r.addr, V.ret, e)
    IN  IF r.update_db
        THEN Result(W.S, W.res, IF W.res = "ok" THEN V.ret ELSE <<>>,
                    G.synced \/ V.synced \/ W.synced, "read")
        ELSE Result(V.S, "ok", V.ret, G.synced \/ V.synced, "read")

\* write_registers after CircuitBreakerOpen: the values go to the store, then
\* CircuitBreakerOpen is raised again
write_registers_open(S, r, e) == set_registers(S, r.addr, r.vals, e)

\* A read or write of the gateway is one step: the wrapped function is a
\* lookup in the process's own Modbus context, and the breaker's lock is held
\* from the entry of call() to its end.  The durable layer either answers
\* every access of the step or, while db_down, none.
\* bus_ok: _read returns (it raises ModbusReadError otherwise)
Read(t) ==
    \E r0 \in ReadReqs("get_range"), bus_ok \in BOOLEAN :
        LET r == [r0 EXCEPT !.op = "read"]
            e == Calm
            C == admit(Breaker)
            R == read_registers_ok(Store, block_values, r, e)
        IN  /\ Idle
            /\ pc[t] = "idle"
            /\ LockFree(t)
            /\ ~rejects(Breaker)
            /\ bus_ok \/ failure_count < MaxFailures
            /\ BreakerBecomes(finish(C, bus_ok))
            /\ IF bus_ok
               THEN /\ StoreBecomes(R.S)
                    /\ ev' = Event(r, IF R.res = "ok" THEN "ok" ELSE "db_error",
                                   "ok", TRUE, R.ret, R.synced)
               ELSE /\ StoreBecomes(Store)
                    /\ ev' = Event(r, "fail", "fail", TRUE, <<>>, FALSE)
            /\ UNCHANGED <<ccVars, wtVars, cb_lock, pc, db_down, block_values, cbHist, last_set, outage>>

ReadRejected(t) ==
    \E r0 \in ReadReqs("get_range") :
        LET r == [r0 EXCEPT !.op = "read"]
            e == Calm
            R == read_registers_open(Store, r, e)
        IN  /\ Idle
            /\ pc[t] = "idle"
            /\ LockFree(t)
            /\ rejects(Breaker)
            /\ StoreBecomes(R.S)
            /\ ev' = Event(r, IF R.res = "ok" THEN "ok" ELSE "db_error",
                           "circuit_open", FALSE, R.ret, R.synced)
            /\ UNCHANGED <<ccVars, wtVars, cbVars, cbHist, pc, db_down, block_values, last_set, outage>>

\* bus_ok: _write returns; otherwise it raises ModbusWriteError before the
\* data block has stored anything (the lookup of the slave context or of the
\* data block, or super().setValues, raised)
Write(t) ==
    \E r0 \in WriteReqs("set_range"), bus_ok \in BOOLEAN :
        LET r == [r0 EXCEPT !.op = "write"]
            e == Calm
            C == admit(Breaker)
            R == setValues(Store, r.addr, r.vals, e)
        IN  /\ Idle
            /\ pc[t] = "idle"
            /\ LockFree(t)
            /\ ~rejects(Breaker)
            /\ bus_ok \/ failure_count < MaxFailures
            /\ BreakerBecomes(finish(C, bus_ok))
            /\ IF bus_ok
               THEN /\ block_values' = block_set(block_values, r.addr, r.vals)
                    /\ StoreBecomes(R.S)
                    /\ ev' = Event(r, "ok", "ok", TRUE, <<>>, R.synced)
               ELSE /\ StoreBecomes(Store)
                    /\ UNCHANGED block_values
                    /\ ev' = Event(r, "fail", "fail", TRUE, <<>>, FALSE)
            /\ UNCHANGED <<ccVars, wtVars, cb_lock, pc, db_down, cbHist, last_set, outage>>

WriteRejected(t) ==
    \E r0 \in WriteReqs("set_range") :
        LET r == [r0 EXCEPT !.op = "write"]
            e == Calm
            R == write_registers_open(Store, r, e)
        IN  /\ Idle
            /\ pc[t] = "idle"
            /\ LockFree(t)
            /\ rejects(Breaker)
            /\ StoreBecomes(R.S)
            /\ ev' = Event(r, IF R.res = "ok" THEN "circuit_open" ELSE "db_error",
                           "circuit_open", FALSE, <<>>, R.synced)
            /\ UNCHANGED <<ccVars, wtVars, cbVars, cbHist, pc, db_down, block_values, last_set, outage>>

\* ---- ModbusManager called from several threads -------------------------------
\* The locks a call of the gateway takes, one step per lock that is held
\* while the next is awaited.  A call in flight is gw[t]:
\*   at: "sync_call" (sync_from_bus called, before its with self._lock),
\*       "call" (read_registers or write_registers called, before
\*       circuit_breaker.call; for sync_from_bus: inside its with self._lock,
\*       calling read_registers for the batch),
\*       "func" (inside circuit_breaker.call, which holds the breaker's lock
\*       and has invoked _read or _write, before their with self._lock)
\*       "batch" (sync_from_bus, inside its with self._lock, after
\*       read_registers; r.vals holds the values it returned, <<>> if it raised)
\*   r: the request; sync: the call is the batch of a sync_from_bus
\* Inside _read and _write the lock of the data block and, inside it, the lock
\* of the store are taken and released again before anything else is awaited:
\* they are part of the step that ends the call.

\* with self._lock: of the ModbusManager, an RLock: free or held by the caller
MgrLockFree(t) == mgr_lock \in {NoThread, t}

\* read_register(address, update_db) and write_register(address, value) on
\* the state register of zone (1,1)
GatewayReqs ==
    {[r EXCEPT !.op = "read"] :
        r \in {q \in ReadReqs("get") : q.addr = ZONE_ID_MULTIPLIER}}
        \cup {[r EXCEPT !.op = "write"] :
                 r \in {q \in WriteReqs("set") : q.addr = ZONE_ID_MULTIPLIER}}

\* sync_from_bus(start_address, count) over the registers of the model, which
\* are one batch
SyncReq ==
    [op |-> "sync", addr |-> ZONE_ID_MULTIPLIER, vals |-> <<>>, count |-> NumRegs,
     update_db |-> TRUE]

\* read_register(...) or write_register(...) is called, and calls
\* read_registers or write_registers
GatewayCall(t) ==
    \E r \in GatewayReqs :
        /\ Idle
        /\ pc[t] = "idle"
        /\ gw[t] = NoCall
        /\ gw' = [gw EXCEPT ![t] = [at |-> "call", r |-> r, sync |-> FALSE]]
        /\ UNCHANGED <<db_lock, st, mgr_lock, block_secondary, wtVars, cbVars, cbHist,
                       pc, dbVars, db_down, block_values, ev>>

\* sync_from_bus() is called
SyncCall(t) ==
    /\ Idle
    /\ pc[t] = "idle"
    /\ gw[t] = NoCall
    /\ gw' = [gw EXCEPT ![t] = [at |-> "sync_call", r |-> SyncReq, sync |-> TRUE]]
    /\ UNCHANGED <<db_lock, st, mgr_lock, block_secondary, wtVars, cbVars, cbHist,
                   pc, dbVars, db_down, block_values, ev>>

\* sync_from_bus: with self._lock: entered, read_registers called for the batch
SyncEnter(t) ==
    /\ Idle
    /\ gw[t].at = "sync_call"
    /\ MgrLockFree(t)
    /\ mgr_lock' = t
    /\ gw' = [gw EXCEPT ![t].at = "call"]
    /\ UNCHANGED <<db_lock, st, block_secondary, wtVars, cbVars, cbHist,
                   pc, dbVars, db_down, block_values, ev>>

\* circuit_breaker.call: with self._lock: entered, the call admitted and the
\* wrapped function invoked
EnterBreaker(t) ==
    /\ Idle
    /\ gw[t].at = "call"
    /\ LockFree(t)
    /\ ~rejects(Breaker)
    /\ cb_lock' = t
    /\ BreakerBecomes(admit(Breaker))
    /\ gw' = [gw EXCEPT ![t].at = "func"]
    /\ UNCHANGED <<db_lock, st, mgr_lock, block_secondary, wtVars, cbHist,
                   pc, dbVars, db_down, block_values, ev>>

\* circuit_breaker.call raises CircuitBreakerOpen: the call ends on the store;
\* sync_from_bus goes on with the values read_registers returned
BreakerRejects(t) ==
    LET r == gw[t].r
        R == IF r.op = "write"
             THEN write_registers_open(Store, r, Calm)
             ELSE read_registers_open(Store, r, Calm)
    IN  /\ Idle
        /\ gw[t].at = "call"
        /\ LockFree(t)
        /\ rejects(Breaker)
        /\ StoreBecomes(R.S)
        /\ IF gw[t].sync
           THEN /\ gw' = [gw EXCEPT ![t].at = "batch", ![t].r.vals = R.ret]
                /\ UNCHANGED ev
           ELSE /\ gw' = [gw EXCEPT ![t] = NoCall]
                /\ ev' = Event(r, IF R.res # "ok" THEN "db_error"
                                  ELSE IF r.op = "write" THEN "circuit_open" ELSE "ok",
                               "circuit_open", FALSE, R.ret, R.synced)
        /\ UNCHANGED <<db_lock, st, mgr_lock, block_secondary, wtVars, cbVars, cbHist,
                       pc, db_down, block_values, last_set, outage>>

\* _read or _write: with self._lock: entered, the registers accessed, the
\* locks released, and the rest of the call; sync_from_bus keeps its own hold
\* of the manager's lock and goes on with the values read_registers returned
\* bus_ok: _read or _write returns
LeaveBreaker(t) ==
    \E bus_ok \in BOOLEAN :
        LET r == gw[t].r
            R == IF r.op = "write"
                 THEN setValues(Store, r.addr, r.vals, Calm)
                 ELSE read_registers_ok(Store, block_values, r, Calm)
            res == IF ~bus_ok THEN "fail" ELSE IF R.res = "ok" THEN "ok" ELSE "db_error"
        IN  /\ Idle
            /\ gw[t].at = "func"
            /\ MgrLockFree(t)
            /\ bus_ok \/ failure_count < MaxFailures
            /\ BreakerBecomes(finish(Breaker, bus_ok))
            /\ cb_lock' = NoThread
            /\ block_values' = IF bus_ok /\ r.op = "write"
                               THEN block_set(block_values, r.addr, r.vals)
                               ELSE block_values
            /\ StoreBecomes(IF bus_ok THEN R.S ELSE Store)
            /\ IF gw[t].sync
               THEN /\ gw' = [gw EXCEPT ![t].at = "batch",
                                        ![t].r.vals = IF res = "ok" THEN R.ret ELSE <<>>]
                    /\ UNCHANGED ev
               ELSE /\ gw' = [gw EXCEPT ![t] = NoCall]
                    /\ ev' = Event(r, res, IF bus_ok THEN "ok" ELSE "fail", TRUE,
                                   IF bus_ok THEN R.ret ELSE <<>>, bus_ok /\ R.synced)
            /\ UNCHANGED <<db_lock, st, mgr_lock, block_secondary, wtVars, cbHist, pc,
                           db_down, last_set, outage>>

\* sync_from_bus after read_registers: self.db_manager.set_registers(addr,
\* values) with the values of the batch (an exception of the batch is logged),
\* and the end of its with self._lock
SyncBatch(t) ==
    LET r == gw[t].r
        W == set_registers(Store, r.addr, r.vals, Calm)
    IN  /\ Idle
        /\ gw[t].at = "batch"
        /\ StoreBecomes(IF r.vals # <<>> THEN W.S ELSE Store)
        /\ mgr_lock' = NoThread
        /\ gw' = [gw EXCEPT ![t] = NoCall]
        /\ ev' = Event(r, "ok", "none", FALSE, <<>>, FALSE)
        /\ UNCHANGED <<db_lock, st, block_secondary, wtVars, cbVars, cbHist, pc,
                       db_down, block_values, last_set, outage>>

\* ---- NeasmartModbusClient ---------------------------------------------------
\* A client value W is [consecutive_errors, last_error_time, connected]; the
\* configuration (gateway_enabled, disable_write_through_on_error) is fixed.
Client ==
    [consecutive_errors |-> consecutive_errors, last_error_time |-> last_error_time,
     connected |-> connected]

is_gateway_enabled(W) ==
    IF ~gateway_enabled
    THEN FALSE
    ELSE IF disable_write_through_on_error
            /\ W.consecutive_errors >= max_consecutive_errors
         THEN FALSE
         ELSE TRUE

record_error(W) ==
    [W EXCEPT !.consecutive_errors = @ + 1, !.last_error_time = now]

record_success(W) ==
    IF W.consecutive_errors > 0 THEN [W EXCEPT !.consecutive_errors = 0] ELSE W

\* connect(): connect_ok: the connection is established
connect(W, connect_ok) ==
    IF W.connected THEN W ELSE [W EXCEPT !.connected = connect_ok]

\* The inputs of one write that come from the environment: connect_ok, and
\* nfail, the number of leading device writes that fail (an error response,
\* a ModbusException or any other exception)
ClientEnvs == [connect_ok : BOOLEAN, nfail : 0..default_max_retries]

\* The result of a write: the client afterwards, whether it succeeded, the
\* number of device writes and of connections attempted
ClientResult(W, ok, tries, connects) ==
    [W |-> W, ok |-> ok, tries |-> tries, connects |-> connects]

zone_addr(base_id, zone_id) ==
    (base_id - 1) * ZONE_BASE_ID_MULTIPLIER + zone_id * ZONE_ID_MULTIPLIER

\* every failed attempt is recorded as an error
write_zone_setpoint_per_attempt(W, max_retries, e) ==
    IF ~is_gateway_enabled(W)
    THEN ClientResult(W, FALSE, 0, 0)
    ELSE LET K == connect(W, e.connect_ok)
             connects == IF W.connected THEN 0 ELSE 1
         IN  IF ~K.connected
             THEN ClientResult(record_error(K), FALSE, 0, connects)
             ELSE IF e.nfail < max_retries
                  THEN ClientResult(record_success(K), TRUE, e.nfail + 1, connects)
                  ELSE ClientResult(
                          [K EXCEPT !.consecutive_errors = @ + Max(max_retries, 1),
                                    !.last_error_time = now],
                          FALSE, max_retries, connects)

write_zone_setpoint(W, max_retries, e) ==
    IF ~is_gateway_enabled(W)
    THEN ClientResult(W, FALSE, 0, 0)
    ELSE LET K == connect(W, e.connect_ok)
             connects == IF W.connected THEN 0 ELSE 1
         IN  IF ~K.connected
             THEN ClientResult(record_error(K), FALSE, 0, connects)
             ELSE IF e.nfail < max_retries
                  THEN ClientResult(record_success(K), TRUE, e.nfail + 1, connects)
                  ELSE ClientResult(record_error(K), FALSE, max_retries, connects)

\* write_zone_state: one device write, connected first if need be
write_zone_state(W, e) ==
    LET K == connect(W, e.connect_ok)
        connects == IF W.connected THEN 0 ELSE 1
    IN  IF ~K.connected
        THEN ClientResult(K, FALSE, 0, connects)
        ELSE ClientResult(K, e.nfail = 0, 1, connects)

\* the primed client variables are those of W
ClientBecomes(W) ==
    /\ consecutive_errors' = W.consecutive_errors
    /\ last_error_time' = W.last_error_time
    /\ connected' = W.connected
    /\ UNCHANGED <<gateway_enabled, disable_write_through_on_error>>

ClientReqs(op) ==
    {[op |-> op, addr |-> zone_addr(base_id, zone_id) + offset, vals |-> <<value>>,
      count |-> 1, update_db |-> FALSE] :
        base_id \in {1}, zone_id \in 1..NumRegs, value \in Vals,
        offset \in {IF op = "wt_setpoint" THEN ZONE_SETPOINT_ADDR_OFFSET ELSE 0}}

ClientEvent(r, R, max_retries, e) ==
    [Event(r, IF R.ok THEN "ok" ELSE "fail", "none", FALSE, <<>>, FALSE)
        EXCEPT !.tries = R.tries, !.nfail = e.nfail, !.connects = R.connects,
               !.max_retries = max_retries]

\* the failures that make a difference: a connection is attempted only when
\* not connected, and at most max_retries device writes are attempted
ClientEnvsAt(W, max_retries) ==
    {e \in ClientEnvs :
        /\ W.connected => e.connect_ok
        /\ e.nfail <= max_retries
        /\ ~e.connect_ok => e.nfail = 0}

WriteZoneSetpoint ==
    \E r \in ClientReqs("wt_setpoint"), max_retries \in 0..default_max_retries :
        \E e \in ClientEnvsAt(Client, max_retries) :
            LET R == write_zone_setpoint(Client, max_retries, e)
            IN  /\ Idle
                /\ R.W.consecutive_errors <= MaxErrors
                /\ ClientBecomes(R.W)
                /\ ev' = ClientEvent(r, R, max_retries, e)
                /\ UNCHANGED <<ccVars, cbVars, cbHist, pc, dbVars, db_down, block_values>>

WriteZoneState ==
    \E r \in ClientReqs("wt_state") :
        \E e \in ClientEnvsAt(Client, 1) :
            LET R == write_zone_state(Client, e)
            IN  /\ Idle
                /\ ClientBecomes(R.W)
                /\ ev' = ClientEvent(r, R, 1, e)
                /\ UNCHANGED <<ccVars, cbVars, cbHist, pc, dbVars, db_down, block_values>>

\* disconnect()
Disconnect ==
    /\ Idle
    /\ connected
    /\ connected' = FALSE
    /\ UNCHANGED <<ccVars, cbVars, cbHist, pc, dbVars, db_down, block_values, ev,
                   gateway_enabled, disable_write_through_on_error,
                   consecutive_errors, last_error_time>>

\* ---- dpt_9001 ---------------------------------------------------------------
\* A float handed to pack_dpt9001 is [kind, h]: a finite number of h
\* hundredths (int(round(value * 100)) is h), NaN or an infinity.  The range
\* of the codec, DPT9001_MIN_VALUE and DPT9001_MAX_VALUE, is in hundredths.
DPT9001_MIN_VALUE == 0 - 67108864
DPT9001_MAX_VALUE == 67076096

Abs(a) == IF a < 0 THEN 0 - a ELSE a

\* the normalisation loop of pack_dpt9001: signed_mantissa //= 2 until the
\* mantissa fits 11 bits; raised when the exponent passed 15
RECURSIVE normalize(_, _)
normalize(signed_mantissa, exp) ==
    IF ~(signed_mantissa > 2047 \/ signed_mantissa < 0 - 2048)
    THEN [signed_mantissa |-> signed_mantissa, exp |-> exp, raised |-> FALSE]
    ELSE IF exp + 1 > 15
         THEN [signed_mantissa |-> signed_mantissa \div 2, exp |-> exp + 1,
               raised |-> TRUE]
         ELSE normalize(signed_mantissa \div 2, exp + 1)

\* the two bytes of the buffer as one big-endian integer
pack_buffer(signed_mantissa, exp) ==
    LET m == IF signed_mantissa < 0 THEN signed_mantissa + 2048 ELSE signed_mantissa
        buffer0 == ((exp % 16) * 8)
                     + (IF signed_mantissa < 0 THEN 128 ELSE 0)
                     + ((m \div 256) % 8)
        buffer1 == m % 256
    IN  (buffer0 * 256) + buffer1

CodecError == [res |-> "codec_error", raw |-> 0]

\* a mantissa out of range is cut to the nearest one in range
pack_dpt9001_clamped(x) ==
    IF x.kind # "number" \/ x.h > DPT9001_MAX_VALUE \/ x.h < DPT9001_MIN_VALUE
    THEN CodecError
    ELSE [res |-> "ok",
          raw |-> pack_buffer(IF x.h > 2047 THEN 2047
                              ELSE IF x.h < 0 - 2048 THEN 0 - 2048 ELSE x.h, 0)]

\* the range is not checked
pack_dpt9001_unchecked(x) ==
    IF x.kind # "number"
    THEN CodecError
    ELSE LET N == normalize(x.h, 0)
         IN  IF N.raised
             THEN CodecError
             ELSE [res |-> "ok", raw |-> pack_buffer(N.signed_mantissa, N.exp)]

\* pack_dpt9001: DPT9001ValidationError, or the 16-bit integer
pack_dpt9001(x) ==
    IF x.kind # "number"
    THEN CodecError
    ELSE IF x.h > DPT9001_MAX_VALUE \/ x.h < DPT9001_MIN_VALUE
         THEN CodecError
         ELSE LET N == normalize(x.h, 0)
              IN  IF N.raised
                  THEN CodecError
                  ELSE [res |-> "ok", raw |-> pack_buffer(N.signed_mantissa, N.exp)]

\* unpack_dpt9001 raises DPT9001ValidationError
unpack_dpt9001_raises(value) == value < 0 \/ value > 65535

\* the exponent field of a 16-bit integer
exponent(value) == (value \div 2048) % 16

\* the floats packed: the hundredths within CodecWindow of the ends of every
\* exponent's range, of zero and of the ends of the codec's range, the
\* values of the tests, and the floats that are no numbers
PackNumbers ==
    {s * (k * (2 ^ e)) + d :
        s \in {1, 0 - 1}, k \in {2047, 2048}, e \in 0..15,
        d \in (0 - CodecWindow)..CodecWindow}
    \cup ((0 - CodecWindow)..CodecWindow)
    \cup {500000, 0 - 500000, 70000000, 0 - 70000000}

PackInputs ==
    [kind : {"number"}, h : PackNumbers] \cup [kind : {"nan", "inf", "-inf"}, h : {0}]

\* the integers unpacked: within CodecWindow of the ends of 0..65535 and of
\* the sign bit
UnpackInputs ==
    {b + d : b \in {0, 2047, 32768, 65535}, d \in (0 - CodecWindow)..CodecWindow}

CodecReq(op, v) ==
    [op |-> op, addr |-> 0, vals |-> <<v>>, count |-> 1, update_db |-> FALSE]

\* pack_dpt9001(value)
Pack ==
    \E x \in PackInputs :
        LET R == pack_dpt9001(x)
        IN  /\ Idle
            /\ ev' = [Event(CodecReq("pack_dpt9001", x.h), R.res, "none", FALSE,
                            IF R.res = "ok" THEN <<R.raw>> ELSE <<>>, FALSE)
                        EXCEPT !.input = x.kind]
            /\ UNCHANGED <<ccVars, wtVars, cbVars, cbHist, pc, dbVars, db_down, block_values>>

\* unpack_dpt9001(value)
Unpack ==
    \E value \in UnpackInputs :
        /\ Idle
        /\ ev' = Event(CodecReq("unpack_dpt9001", value),
                       IF unpack_dpt9001_raises(value) THEN "codec_error" ELSE "ok",
                       "none", FALSE,
                       IF unpack_dpt9001_raises(value)
                       THEN <<>> ELSE <<unpack_dpt9001(value)>>, FALSE)
        /\ UNCHANGED <<ccVars, wtVars, cbVars, cbHist, pc, dbVars, db_down, block_values>>

\* ---- addresses of zones and devices ------------------------------------------
\* api/zones.py: the validators raise ValidationError (FALSE here)
validate_base_id(base_id) == 1 <= base_id /\ base_id <= 4

validate_zone_id_to_13(zone_id) == 1 <= zone_id /\ zone_id <= 13

validate_zone_id(zone_id) == 1 <= zone_id /\ zone_id <= 12

calculate_zone_address(base_id, zone_id) ==
    (base_id - 1) * ZONE_BASE_ID_MULTIPLIER + zone_id * ZONE_ID_MULTIPLIER

\* What resolving an address gave: res is "ok", "validation_error" (the
\* request is refused) or "key_error" (a KeyError leaves the service);
\* access: the handler goes on to the registers at the address
Resolved(res, address, access) ==
    [res |-> res, address |-> address, access |-> access]

\* get_zone and update_zone up to the first register access
zone_address(base_id, zone_id) ==
    IF ~validate_base_id(base_id) \/ ~validate_zone_id(zone_id)
    THEN Resolved("validation_error", <<>>, FALSE)
    ELSE Resolved("ok", <<calculate_zone_address(base_id, zone_id)>>, TRUE)

\* services/device_service.py: the validators return (False, message) (FALSE here)
validate_dehumidifier_id(dehumidifier_id) ==
    ~(dehumidifier_id > 9 \/ dehumidifier_id < 1)

validate_pump_id(pump_id) == ~(pump_id > 5 \/ pump_id < 1)

validate_mixed_group_id(group_id) == ~(group_id = 0 \/ group_id > 3)

MIXEDGROUP_BASE_REG == (1 :> 10) @@ (2 :> 14) @@ (3 :> 18)

\* get_dehumidifier up to the register access of get_dehumidifier_data
dehumidifier_address(dehumidifier_id) ==
    IF ~validate_dehumidifier_id(dehumidifier_id)
    THEN Resolved("validation_error", <<>>, FALSE)
    ELSE Resolved("ok", <<dehumidifier_id + DEHUMIDIFIERS_ADDR_OFFSET>>, TRUE)

\* get_extra_pumps up to the register access of get_pump_data
pump_address(pump_id) ==
    IF ~validate_pump_id(pump_id)
    THEN Resolved("validation_error", <<>>, FALSE)
    ELSE Resolved("ok", <<pump_id + EXTRA_PUMPS_ADDR_OFFSET>>, TRUE)

\* validate_mixed_group_id, then get_mixed_group_data up to its first register
\* access: the lookup in MIXEDGROUP_BASE_REG raises KeyError for an id that
\* is no key
mixed_group_address(group_id) ==
    IF ~validate_mixed_group_id(group_id)
    THEN Resolved("validation_error", <<>>, FALSE)
    ELSE IF group_id \notin DOMAIN MIXEDGROUP_BASE_REG
         THEN Resolved("key_error", <<>>, FALSE)
         ELSE Resolved("ok", <<MIXEDGROUP_BASE_REG[group_id]>>, TRUE)

\* the ids requested
Ids == (0 - MaxId)..MaxId

AddressEvent(op, ids, R) ==
    Event([op |-> op, addr |-> 0, vals |-> ids, count |-> Len(ids),
           update_db |-> FALSE],
          R.res, "none", R.access, R.address, FALSE)

ZoneAddress ==
    \E base_id \in Ids, zone_id \in Ids :
        /\ Idle
        /\ ev' = AddressEvent("zone_address", <<base_id, zone_id>>,
                              zone_address(base_id, zone_id))
        /\ UNCHANGED <<ccVars, wtVars, cbVars, cbHist, pc, dbVars, db_down, block_values>>

MixedGroupAddress ==
    \E group_id \in Ids :
        /\ Idle
        /\ ev' = AddressEvent("mixed_group_address", <<group_id>>,
                              mixed_group_address(group_id))
        /\ UNCHANGED <<ccVars, wtVars, cbVars, cbHist, pc, dbVars, db_down, block_values>>

DehumidifierAddress ==
    \E dehumidifier_id \in Ids :
        /\ Idle
        /\ ev' = AddressEvent("dehumidifier_address", <<dehumidifier_id>>,
                              dehumidifier_address(dehumidifier_id))
        /\ UNCHANGED <<ccVars, wtVars, cbVars, cbHist, pc, dbVars, db_down, block_values>>

PumpAddress ==
    \E pump_id \in Ids :
        /\ Idle
        /\ ev' = AddressEvent("pump_address", <<pump_id>>, pump_address(pump_id))
        /\ UNCHANGED <<ccVars, wtVars, cbVars, cbHist, pc, dbVars, db_down, block_values>>

\* ---- ZoneService -------------------------------------------------------------
\* get_client(gateway_host, gateway_port, neasmart_slave_id): a call with any
\* other keyword argument raises TypeError
get_client_parameters == {"gateway_host", "gateway_port", "neasmart_slave_id"}

get_client_raises(keyword) == keyword \notin get_client_parameters

\* How the write-through of a handler went: the client afterwards, mirror as
\* in the handler records, the device writes and connections attempted
Mirrored(W, mirror, tries, connects) ==
    [W |-> W, mirror |-> mirror, tries |-> tries, connects |-> connects]

\* an exception of the write-through leaves update_zone_data
write_through_raising(W, keyword, e) ==
    IF get_client_raises(keyword)
    THEN Mirrored(W, "raised", 0, 0)
    ELSE LET R == write_zone_setpoint(W, default_max_retries, e)
         IN  Mirrored(R.W, IF R.ok THEN "inline_ok" ELSE "inline_failed",
                      R.tries, R.connects)

\* the write-through of update_zone_data: get_client(force_recreate=True) and
\* asyncio.run(client.write_zone_setpoint(...)), called in the handler; every
\* exception is caught and logged
write_through(W, keyword, e) ==
    IF get_client_raises(keyword)
    THEN Mirrored(W, "inline_raised", 0, 0)
    ELSE LET R == write_zone_setpoint(W, default_max_retries, e)
         IN  Mirrored(R.W, IF R.ok THEN "inline_ok" ELSE "inline_failed",
                      R.tries, R.connects)

\* ZoneRequest: state and setpoint, each of them optional; the setpoint is a
\* float as handed to pack_dpt9001
ZoneRequests ==
    {q \in [has_state : BOOLEAN, state : Vals, has_setpoint : BOOLEAN,
            setpoint : [kind : {"number"}, h : Vals]] :
        /\ q.has_state \/ q.has_setpoint
        /\ ~q.has_state => q.state = 0
        /\ ~q.has_setpoint => q.setpoint.h = 0}

\* update_zone_data: the store, the data block and the client afterwards, what
\* it returns and how the write-through went
update_zone_data(S, B, W, base_id, zone_id, request, e, ce) ==
    LET zone_address_ == calculate_zone_address(base_id, zone_id)
        setpoint_address == zone_address_ + ZONE_SETPOINT_ADDR_OFFSET
        R1 == IF request.has_state
              THEN setValues(S, zone_address_, <<request.state>>, e)
              ELSE Result(S, "ok", <<>>, FALSE, "none")
        B1 == IF request.has_state
              THEN block_set(B, zone_address_, <<request.state>>)
              ELSE B
        dpt_9001_setpoint == <<pack_dpt9001(request.setpoint).raw>>
        R2 == IF request.has_setpoint
              THEN setValues(R1.S, setpoint_address, dpt_9001_setpoint, e)
              ELSE Result(R1.S, "ok", <<>>, FALSE, "none")
        B2 == IF request.has_setpoint
              THEN block_set(B1, setpoint_address, dpt_9001_setpoint)
              ELSE B1
        M == IF request.has_setpoint
             THEN write_through(W, "force_recreate", ce)
             ELSE Mirrored(W, "none", 0, 0)
    IN  [S |-> R2.S, B |-> B2, W |-> M.W,
         res |-> IF M.mirror = "raised" THEN "fail" ELSE "ok",
         addr |-> IF request.has_setpoint THEN setpoint_address ELSE zone_address_,
         vals |-> IF request.has_setpoint THEN dpt_9001_setpoint
                  ELSE <<request.state>>,
         synced |-> R1.synced \/ R2.synced,
         mirror |-> M.mirror, tries |-> M.tries, connects |-> M.connects]

\* the zones requested: those whose state and setpoint registers are modelled
ZoneIds == {z \in [base_id : {1}, zone_id : 1..NumRegs] :
              calculate_zone_address(z.base_id, z.zone_id)
                  + ZONE_SETPOINT_ADDR_OFFSET \in Addrs}

\* ZoneService.update_zone_data(base_id, zone_id, request)
UpdateZoneData ==
    \E z \in ZoneIds, request \in ZoneRequests :
        \E ce \in ClientEnvsAt(Client, default_max_retries) :
            LET U == update_zone_data(Store, block_values, Client, z.base_id,
                                      z.zone_id, request, Calm, ce)
            IN  /\ Idle
                /\ StoreBecomes(U.S)
                /\ block_values' = U.B
                /\ ClientBecomes(U.W)
                /\ ev' = [Event([op |-> "update_zone_data", addr |-> U.addr,
                                 vals |-> U.vals, count |-> 1,
                                 update_db |-> FALSE],
                                U.res, "none", FALSE, <<>>, U.synced)
                            EXCEPT !.tries = U.tries, !.connects = U.connects,
                                   !.max_retries = default_max_retries,
                                   !.mirror = U.mirror]
                /\ UNCHANGED <<ccVars, cbVars, cbHist, pc, db_down, last_set, outage>>

\* ---- the Modbus server ---------------------------------------------------------
\* A request of an external master, served by pymodbus from the server context
\* that run_modbus_server hands to StartAsyncTcpServer / StartAsyncSerialServer:
\* the slave context calls getValues / setValues of the ThreadSafeDataBlock.
MasterRead(t) ==
    \E r0 \in {q \in ReadReqs("get_range") : ~q.update_db} :
        LET r == [r0 EXCEPT !.op = "master_read"]
            R == getValues(Store, block_values, r.addr, r.count, Calm)
        IN  /\ Idle
            /\ pc[t] = "idle"
            /\ StoreBecomes(R.S)
            /\ ev' = Event(r, "ok", "none", FALSE, R.ret, R.synced)
            /\ UNCHANGED <<ccVars, wtVars, cbVars, cbHist, pc, db_down, block_values,
                           last_set, outage>>

MasterWrite(t) ==
    \E r0 \in WriteReqs("set_range") :
        LET r == [r0 EXCEPT !.op = "master_write"]
            R == setValues(Store, r.addr, r.vals, Calm)
        IN  /\ Idle
            /\ pc[t] = "idle"
            /\ block_values' = block_set(block_values, r.addr, r.vals)
            /\ StoreBecomes(R.S)
            /\ ev' = Event(r, "ok", "none", FALSE, <<>>, R.synced)
            /\ UNCHANGED <<ccVars, wtVars, cbVars, cbHist, pc, db_down, last_set, outage>>

\* A request of an external master addressed to the secondary slave
\* (NEASMART_SLAVE_ADDRESS_SECONDARY): its slave context holds the
\* ModbusSequentialDataBlock that _initialize_context made for it, which
\* keeps its values in memory and knows nothing of the register store.
SecondaryRead(t) ==
    \E r0 \in {q \in ReadReqs("get_range") : ~q.update_db} :
        LET r == [r0 EXCEPT !.op = "secondary_read"]
        IN  /\ Idle
            /\ pc[t] = "idle"
            /\ ev' = Event(r, "ok", "none", FALSE,
                           block_get(block_secondary, r.addr, r.count), FALSE)
            /\ UNCHANGED <<ccVars, wtVars, cbVars, cbHist, pc, dbVars, db_down, block_values>>

SecondaryWrite(t) ==
    \E r0 \in WriteReqs("set_range") :
        LET r == [r0 EXCEPT !.op = "secondary_write"]
        IN  /\ Idle
            /\ pc[t] = "idle"
            /\ block_secondary' = block_set(block_secondary, r.addr, r.vals)
            /\ ev' = Event(r, "ok", "none", FALSE, <<>>, FALSE)
            /\ UNCHANGED <<db_lock, st, mgr_lock, gw, wtVars, cbVars, cbHist, pc,
                           dbVars, db_down, block_values>>

\* ---- the classification of read addresses ----------------------------------
\* _validate_and_filter_read_data asks _is_zone_register(start_address + i)
\* for every register read; the addresses asked about here are 0 .. MaxAddress
IsZoneRegister ==
    \E address \in 0..MaxAddress :
        /\ Idle
        /\ ev' = Event([op |-> "is_zone_register", addr |-> address, vals |-> <<>>,
                        count |-> 1, update_db |-> FALSE],
                       IF is_zone_register(address) THEN "zone" ELSE "other",
                       "none", FALSE, <<>>, FALSE)
        /\ UNCHANGED <<ccVars, wtVars, cbVars, cbHist, pc, dbVars, db_down, block_values>>

\* ---- initial state --------------------------------------------------------
\* no lock is held and no call is in flight; the data block of the secondary
\* slave is ModbusSequentialDataBlock(0, [0] * 65536)
InitLocks ==
    /\ db_lock = NoThread
    /\ st = [t \in Threads |-> NoCall]
    /\ mgr_lock = NoThread
    /\ gw = [t \in Threads |-> NoCall]
    /\ block_secondary = [a \in Addrs |-> 0]

Init ==
    /\ state = CLOSED
    /\ failure_count = 0
    /\ last_failure_time = <<>>
    /\ half_open_calls = 0
    /\ cb_lock = NoThread
    /\ pc = [t \in Threads |-> "idle"]
    /\ enable_fallback \in BOOLEAN
    /\ connection_healthy = TRUE
    /\ last_health_check = OldestCheck
    /\ db = [a \in Addrs |-> 0]
    /\ db_down = FALSE
    /\ fb_data = NoEntries
    /\ fb_dirty = FALSE
    /\ startup = "running"
    /\ block_values = [a \in Addrs |-> 0]
    /\ ev = NoEvent
    /\ consec = 0
    /\ ho_succ = 0
    /\ open_cause = "none"
    /\ cleared = FALSE
    /\ last_set = NoEntries
    /\ outage = {}
    /\ gateway_enabled = TRUE
    /\ disable_write_through_on_error = FALSE
    /\ consecutive_errors = 0
    /\ last_error_time = OldestError
    /\ connected = FALSE
    /\ InitLocks

InitBreaker ==
    /\ Init
    /\ enable_fallback = TRUE

NextBreaker ==
    \/ \E t \in Threads : Call(t)
    \/ \E t \in Threads : CallRejected(t)
    \/ \E t \in Threads : CallReturn(t)
    \/ Return
    \/ Tick

SpecBreaker == InitBreaker /\ [][NextBreaker]_vars

\* the breaker with wrapped operations that may fail for ever
NextBreakerLive ==
    \/ NextBreaker
    \/ \E t \in Threads : CallReturnBeyond(t)

\* the breaker with time that keeps advancing (Tick), callers that keep
\* calling (Call), wrapped operations that end (CallReturn) and callers that
\* take their result (Return).  The steps of the model exclude each other
\* while a result is pending, so the fairness is strong: what can happen again
\* and again does happen.
SpecBreakerLive ==
    /\ InitBreaker
    /\ [][NextBreakerLive]_vars
    /\ SF_vars(Tick)
    /\ SF_vars(\E t \in Threads : Call(t))
    /\ SF_vars(\E t \in Threads : CallReturn(t) \/ CallReturnBeyond(t))
    /\ WF_vars(Return)

\* the store on its own, called from one thread
NextStore ==
    \/ Get("t1")
    \/ GetRange("t1")
    \/ Set("t1")
    \/ SetRange("t1")
    \/ Return
    \/ DbFail
    \/ DbRecover
    \/ Tick

SpecStore == Init /\ [][NextStore]_vars

\* the store from its construction.  While db_down the durable store can be
\* neither created nor opened: _initialize_database catches the error and
\* raises DatabaseConnectionError only when the fallback is disabled, and
\* initialize_managers answers that with sys.exit(1).  A store constructed on
\* a failed initialization has _db = None and _connection_healthy = False:
\* its health check, due at the first operation, connects and probes.
InitStartup ==
    /\ state = CLOSED
    /\ failure_count = 0
    /\ last_failure_time = <<>>
    /\ half_open_calls = 0
    /\ cb_lock = NoThread
    /\ pc = [t \in Threads |-> "idle"]
    /\ enable_fallback \in BOOLEAN
    /\ connection_healthy = FALSE
    /\ last_health_check = OldestCheck
    /\ db = [a \in Addrs |-> 0]
    /\ db_down \in BOOLEAN
    /\ fb_data = NoEntries
    /\ fb_dirty = FALSE
    /\ startup = "constructing"
    /\ block_values = [a \in Addrs |-> 0]
    /\ ev = NoEvent
    /\ consec = 0
    /\ ho_succ = 0
    /\ open_cause = "none"
    /\ cleared = FALSE
    /\ last_set = NoEntries
    /\ outage = {}
    /\ gateway_enabled = TRUE
    /\ disable_write_through_on_error = FALSE
    /\ consecutive_errors = 0
    /\ last_error_time = OldestError
    /\ connected = FALSE
    /\ InitLocks

\* DatabaseManager.__init__ and _initialize_database
Construct ==
    /\ startup = "constructing"
    /\ connection_healthy' = ~db_down
    /\ startup' = IF ~db_down
                  THEN "running"
                  ELSE IF enable_fallback THEN "degraded" ELSE "stopped"
    /\ UNCHANGED <<ccVars, wtVars, cbVars, cbHist, pc, enable_fallback, last_health_check, db,
                   fb_data, fb_dirty, last_set, outage, db_down, block_values, ev>>

NextStartup ==
    \/ Construct
    \/ startup \in {"running", "degraded"} /\ NextStore

SpecStartup == InitStartup /\ [][NextStartup]_vars

\* the gateway: reads and writes through the breaker, from one thread
Next ==
    \/ Read("t1")
    \/ ReadRejected("t1")
    \/ Write("t1")
    \/ WriteRejected("t1")
    \/ Return
    \/ DbFail
    \/ DbRecover
    \/ Tick

Spec == Init /\ [][Next]_vars

\* the gateway with the bus reachable: _read and _write always return, so the
\* breaker stays CLOSED and block_values holds, for every register, the value
\* of the last write_registers to it (0 before any)
ReadReachable(t) == Read(t) /\ ev'.cb = "ok"

WriteReachable(t) == Write(t) /\ ev'.cb = "ok"

NextReachable ==
    \/ ReadReachable("t1")
    \/ WriteReachable("t1")
    \/ Return
    \/ DbFail
    \/ DbRecover
    \/ Tick

SpecReachable == Init /\ [][NextReachable]_vars

\* the write-through client on its own, with any configuration
InitClient ==
    /\ state = CLOSED
    /\ failure_count = 0
    /\ last_failure_time = <<>>
    /\ half_open_calls = 0
    /\ cb_lock = NoThread
    /\ pc = [t \in Threads |-> "idle"]
    /\ enable_fallback = TRUE
    /\ connection_healthy = TRUE
    /\ last_health_check = OldestCheck
    /\ db = [a \in Addrs |-> 0]
    /\ db_down = FALSE
    /\ fb_data = NoEntries
    /\ fb_dirty = FALSE
    /\ startup = "running"
    /\ block_values = [a \in Addrs |-> 0]
    /\ ev = NoEvent
    /\ consec = 0
    /\ ho_succ = 0
    /\ open_cause = "none"
    /\ cleared = FALSE
    /\ last_set = NoEntries
    /\ outage = {}
    /\ gateway_enabled \in BOOLEAN
    /\ disable_write_through_on_error \in BOOLEAN
    /\ consecutive_errors = 0
    /\ last_error_time = OldestError
    /\ connected = FALSE
    /\ InitLocks

NextClient ==
    \/ WriteZoneSetpoint
    \/ WriteZoneState
    \/ Disconnect
    \/ Return
    \/ Tick

SpecClient == InitClient /\ [][NextClient]_vars

\* the codec on its own
NextCodec ==
    \/ Pack
    \/ Unpack
    \/ Return

SpecCodec == Init /\ [][NextCodec]_vars

\* the resolution of addresses on its own
NextAddress ==
    \/ ZoneAddress
    \/ MixedGroupAddress
    \/ DehumidifierAddress
    \/ PumpAddress
    \/ Return

SpecAddress == Init /\ [][NextAddress]_vars

\* the zone service: updates of a zone from one thread
NextFacade ==
    \/ UpdateZoneData
    \/ Return
    \/ DbFail
    \/ DbRecover
    \/ Tick

SpecFacade == Init /\ [][NextFacade]_vars

\* the gateway's reads through the breaker beside the requests of an external
\* master
NextServer ==
    \/ Read("t1")
    \/ ReadRejected("t1")
    \/ MasterRead("t2")
    \/ MasterWrite("t2")
    \/ Return
    \/ DbFail
    \/ DbRecover
    \/ Tick

SpecServer == Init /\ [][NextServer]_vars

\* the store called from two threads; the environment and the clock move
\* between the calls, as for the store called from one thread
NextStoreThreads ==
    \/ \E t \in Threads : StoreCall(t)
    \/ \E t \in Threads : StoreEnter(t)
    \/ \E t \in Threads : StoreStep(t)
    \/ \E t \in Threads : StoreExit(t)
    \/ Return
    \/ (Unlocked /\ DbFail)
    \/ (Unlocked /\ DbRecover)
    \/ (Unlocked /\ Tick)

SpecStoreThreads == Init /\ [][NextStoreThreads]_vars

\* external masters addressing the primary and the secondary slave
NextSlaves ==
    \/ MasterRead("t1")
    \/ MasterWrite("t1")
    \/ SecondaryRead("t2")
    \/ SecondaryWrite("t2")
    \/ Return
    \/ DbFail
    \/ DbRecover
    \/ Tick

SpecSlaves == Init /\ [][NextSlaves]_vars

\* the classification of addresses on its own
NextClassify ==
    \/ IsZoneRegister
    \/ Return

SpecClassify == Init /\ [][NextClassify]_vars

\* the gateway called from two threads, lock by lock: one thread reads and
\* writes, the other runs sync_from_bus; the durable layer answers
NextGatewayThreads ==
    \/ GatewayCall("t1")
    \/ SyncCall("t2")
    \/ SyncEnter("t2")
    \/ \E t \in Threads : EnterBreaker(t)
    \/ \E t \in Threads : BreakerRejects(t)
    \/ \E t \in Threads : LeaveBreaker(t)
    \/ SyncBatch("t2")
    \/ Return
    \/ Tick

SpecGatewayThreads == InitBreaker /\ [][NextGatewayThreads]_vars

\* ---- properties of the breaker ---------------------------------------------
\* the step completes a handler
Handled == ev'.op # "none"

InFunc == {t \in Threads : pc[t] = "in_func"}

WithinTimeout ==
    /\ last_failure_time # <<>>
    /\ now - last_failure_time[1] <= recovery_timeout

\* C1: once failure_threshold consecutive calls have failed the breaker is
\* OPEN; while it is OPEN and recovery_timeout has not elapsed since
\* last_failure_time, no wrapped operation is invoked and every call raises
\* CircuitBreakerOpen.
C1_OpensAtThresholdAndRejects ==
    [][ /\ (Handled /\ ev'.cb = "fail" /\ consec' >= failure_threshold)
            => state' = OPEN
        /\ (state = OPEN /\ WithinTimeout)
            => /\ \A t \in Threads : pc'[t] = "in_func" => pc[t] = "in_func"
               /\ (Handled /\ ev'.cb # "none")
                    => ev'.cb = "circuit_open" /\ ~ev'.invoked ]_vars

C1_Witness ==
    /\ state = OPEN
    /\ WithinTimeout
    /\ open_cause = "threshold"
    /\ consec = failure_threshold
    /\ ev.cb = "circuit_open"
    /\ ~ev.invoked

\* C6: the breaker's lock is not held while the wrapped operation executes.
C6_LockNotHeldInFunc ==
    \A t \in Threads : pc[t] = "in_func" => cb_lock # t

\* C7: while the breaker is HALF_OPEN and a trial call is inside the wrapped
\* operation, no other caller's wrapped operation is invoked.
C7_OneTrialInFlight ==
    state = HALF_OPEN => Cardinality(InFunc) <= 1

C7_Witness ==
    /\ state = HALF_OPEN
    /\ half_open_calls = 0
    /\ pc["t1"] = "in_func"
    /\ pc["t2"] = "idle"

\* C8: counted from the entry into HALF_OPEN, the half_open_max_calls-th
\* successful call closes the breaker with failure_count = 0, and every
\* earlier successful call leaves it HALF_OPEN.
C8_ClosesAfterMaxSuccesses ==
    [][ (Handled /\ ev'.cb = "ok" /\ state = HALF_OPEN)
            => IF ho_succ' = half_open_max_calls
               THEN state' = CLOSED /\ failure_count' = 0
               ELSE ho_succ' < half_open_max_calls /\ state' = HALF_OPEN ]_vars

C8_Witness ==
    /\ state = CLOSED
    /\ failure_count = 0
    /\ ev.cb = "ok"
    /\ open_cause # "none"
    /\ ho_succ = half_open_max_calls

\* C9: a failed call in HALF_OPEN reopens the breaker at once, whatever the
\* number of half-open successes, and restarts the recovery timeout, so that
\* calls made before it elapses again are rejected with CircuitBreakerOpen.
C9_HalfOpenFailureReopens ==
    [][ /\ (Handled /\ ev'.cb = "fail" /\ state = HALF_OPEN)
            => state' = OPEN /\ last_failure_time' = <<now>>
        /\ (state = OPEN /\ open_cause = "half_open" /\ WithinTimeout /\ Handled
                /\ ev'.cb # "none")
            => ev'.cb = "circuit_open" /\ ~ev'.invoked /\ state' = OPEN ]_vars

C9_Witness ==
    /\ state = OPEN
    /\ open_cause = "half_open"
    /\ half_open_calls > 0
    /\ ev.cb = "circuit_open"
    /\ WithinTimeout

\* C10 as stated: a failed call in HALF_OPEN leaves failure_count and the
\* half-open success counter as they were.
C10_CountersUnaffected ==
    [][ (Handled /\ ev'.cb = "fail" /\ state = HALF_OPEN)
            => /\ failure_count' = failure_count
               /\ half_open_calls' = half_open_calls ]_vars

\* C10 amended: a failed call in HALF_OPEN leaves the half-open success counter
\* as it was and adds one to failure_count.
C10_HalfOpenCounterUnaffected ==
    [][ (Handled /\ ev'.cb = "fail" /\ state = HALF_OPEN)
            => /\ failure_count' = failure_count + 1
               /\ half_open_calls' = half_open_calls ]_vars

C10_Witness ==
    /\ state = OPEN
    /\ ev.cb = "fail"
    /\ open_cause = "half_open"
    /\ half_open_calls > 0
    /\ failure_count = failure_threshold + 1

\* C11: a successful call in CLOSED sets failure_count to 0, and the breaker
\* goes from CLOSED to OPEN only on a failure that is at least the
\* failure_threshold-th since the last successful call.
C11_ClosedSuccessResets ==
    [][ /\ (Handled /\ ev'.cb = "ok" /\ state = CLOSED)
            => state' = CLOSED /\ failure_count' = 0
        /\ (state = CLOSED /\ state' = OPEN)
            => /\ ev'.cb = "fail"
               /\ consec' >= failure_threshold
               /\ failure_count' = consec' ]_vars

C11_Witness ==
    /\ state = OPEN
    /\ open_cause = "threshold"
    /\ cleared
    /\ ev.cb = "fail"
    /\ consec = failure_threshold
    /\ failure_count = failure_threshold

\* C12: whenever the breaker is OPEN, failure_count >= failure_threshold or
\* the breaker went OPEN on a failed call in HALF_OPEN.
C12_OpenOnlyAtThresholdOrTrialFailure ==
    state = OPEN => (failure_count >= failure_threshold \/ open_cause = "half_open")

C12_Witness ==
    /\ state = OPEN
    /\ open_cause = "half_open"
    /\ failure_count > failure_threshold
    /\ ~WithinTimeout
    /\ Idle

\* ---- properties of the store -----------------------------------------------
StoreOps == {"get", "set", "get_range", "set_range"}

\* the values that the durable layer D, and the fallback F, hold for
\* start .. start + count - 1
DurableValues(D, start, count) == [i \in 1..count |-> D[start + i - 1]]

FallbackValues(F, start, count) ==
    [i \in 1..count |-> IF start + i - 1 \in DOMAIN F THEN F[start + i - 1] ELSE 0]

C5_GetReturnsLastSet ==
    (enable_fallback /\ ev.op = "get" /\ ev.addr \in DOMAIN last_set)
        => ev.ret = <<last_set[ev.addr]>>

C16_BoundedRetry ==
    [][ (Handled /\ ev'.op \in StoreOps)
            => /\ ev'.tries \in 0..max_attempts
               /\ ev'.res \in {"ok", "db_error"}
               /\ (connection_healthy' /\ ~db_down /\ ev'.nfail < max_attempts)
                    => /\ ev'.tries = ev'.nfail + 1
                       /\ ev'.res = "ok"
                       /\ ev'.op \in {"set", "set_range"}
                            => DurableValues(db', ev'.addr, ev'.count) = ev'.vals
                       /\ ev'.op \in {"get", "get_range"}
                            => ev'.ret = DurableValues(db', ev'.addr, ev'.count) ]_vars

C16_Witness ==
    /\ ~enable_fallback
    /\ ev.op = "set"
    /\ ev.res = "ok"
    /\ ev.nfail = max_attempts - 1
    /\ ev.tries = max_attempts
    /\ ev.vals # <<0>>
    /\ db[ev.addr] = ev.vals[1]

\* C17: with the fallback disabled, a store operation whose attempts on the
\* durable layer all fail raises a DatabaseException, returns no value and
\* stores nothing; with the fallback enabled no store operation raises.
C17_ErrorSurfacedOnlyWithoutFallback ==
    [][ (Handled /\ ev'.op \in StoreOps)
            => /\ enable_fallback => ev'.res = "ok"
               /\ (~enable_fallback /\ (db_down \/ ev'.nfail >= max_attempts))
                    => /\ ev'.res = "db_error"
                       /\ ev'.ret = <<>>
                       /\ db' = db ]_vars

C17_Witness ==
    /\ ~enable_fallback
    /\ ~db_down
    /\ ev.op = "get_range"
    /\ ev.count = NumRegs
    /\ ev.res = "db_error"
    /\ ev.nfail = max_attempts
    /\ ev.tries = max_attempts

\* C18: when the durable store can be neither created nor opened at startup,
\* the construction of the store raises and the process stops, with the
\* fallback enabled or not; no store is in use whose initialization failed.
C18_StartupFailsFast ==
    /\ startup # "degraded"
    /\ startup = "stopped" => ev.op \notin StoreOps

\* ---- properties of the gateway ---------------------------------------------
\* a register store with durable layer D and fallback F holds value v under
\* address a: in the durable layer or, with the fallback enabled, in the
\* in-memory fallback
Persisted(D, F, a, v) ==
    \/ D[a] = v
    \/ enable_fallback /\ a \in DOMAIN F /\ F[a] = v

\* C2: write_registers(addr, values) always leaves the intended values in the
\* register store, whatever the bus did: when _write returned, when it raised
\* with the breaker CLOSED or HALF_OPEN, and when the breaker rejected the call.
C2_WriteAlwaysPersists ==
    [][ (Handled /\ ev'.op = "write")
            => \A i \in 1..Len(ev'.vals) :
                  Persisted(db', fb_data', ev'.addr + i - 1, ev'.vals[i]) ]_vars

\* the values returned are those of one layer of the register store
ServedFromStore ==
    \/ ev'.ret = DurableValues(db', ev'.addr, ev'.count)
    \/ enable_fallback /\ ev'.ret = FallbackValues(fb_data', ev'.addr, ev'.count)

\* C3 as stated: while the breaker is OPEN and recovery_timeout has not
\* elapsed, read_registers(addr, count) does not invoke the bus read, does not
\* raise, and returns the values the register store holds for
\* addr .. addr + count - 1.
C3_OpenReadServedFromStore ==
    [][ (Handled /\ ev'.op = "read" /\ state = OPEN /\ WithinTimeout)
            => /\ ~ev'.invoked
               /\ ev'.res = "ok"
               /\ ServedFromStore ]_vars

\* C3 amended: while the breaker is OPEN and recovery_timeout has not elapsed,
\* read_registers(addr, count) does not invoke the bus read and does not raise
\* CircuitBreakerOpen; it returns the values the register store holds for
\* addr .. addr + count - 1, unless the fallback is disabled and the durable
\* layer fails or is still believed to fail: then the store's error is raised.
C3_OpenReadServedFromStoreOrStoreError ==
    [][ (Handled /\ ev'.op = "read" /\ state = OPEN /\ WithinTimeout)
            => /\ ~ev'.invoked
               /\ ev'.res \in {"ok", "db_error"}
               /\ ev'.res = "ok" => ServedFromStore
               /\ ev'.res = "db_error"
                    <=> (~enable_fallback /\ (db_down \/ ~connection_healthy')) ]_vars

C3_Witness ==
    /\ state = OPEN
    /\ WithinTimeout
    /\ ev.op = "read"
    /\ ev.cb = "circuit_open"
    /\ ev.res = "ok"
    /\ ev.count = NumRegs
    /\ \A i \in 1..ev.count : ev.ret[i] # 0

\* the address is in a class that _validate_and_filter_read_data validates
ValidatedClass(a) ==
    a \in {GLOBAL_OP_MODE_ADDR, GLOBAL_OP_STATE_ADDR} \/ is_zone_register(a)

\* value v is what the register store with durable layer D and fallback F
\* holds for address a: in the durable layer or, with the fallback enabled, in
\* the fallback (0 for an address the fallback has no entry for)
Held(D, F, a, v) ==
    \/ D[a] = v
    \/ enable_fallback /\ FallbackValues(F, a, 1) = <<v>>

\* C13: after a successful bus read, every value that read_registers returns
\* for an address of a validated class passes the validation of its class or
\* is the value the register store held for the address before the read, for
\* every count; with update_db the value returned is the value stored.
C13_ReadValidOrStored ==
    [][ (Handled /\ ev'.op = "read" /\ ev'.cb = "ok" /\ ev'.res = "ok")
            => \A i \in 1..ev'.count :
                  LET a == ev'.addr + i - 1
                  IN  ValidatedClass(a)
                        => /\ \/ ~is_invalid(a, ev'.ret[i])
                              \/ Held(db, fb_data, a, ev'.ret[i])
                           /\ ev'.update_db
                                => Persisted(db', fb_data', a, ev'.ret[i]) ]_vars

\* C14: with the bus reachable, a read_registers(addr, count) that returns
\* returns, for every register, the value of the last write_registers to it.
C14_ReadReturnsLastWrite ==
    [][ (Handled /\ ev'.op = "read" /\ ev'.res = "ok")
            => ev'.ret = block_get(block_values, ev'.addr, ev'.count) ]_vars

\* ---- properties of the write-through client ----------------------------------
ClientOps == {"wt_setpoint", "wt_state"}

\* write-through is disabled in the configuration, or by the fallback policy
Disabled ==
    \/ ~gateway_enabled
    \/ disable_write_through_on_error /\ consecutive_errors >= max_consecutive_errors

\* C19: is_gateway_enabled() is false exactly when write-through is disabled
\* in the configuration or the fallback policy is active and
\* consecutive_errors >= max_consecutive_errors; while it is false, every
\* write of a setpoint or of a zone state returns failure without attempting
\* a connection or a device write and without changing consecutive_errors.
C19_DisabledWritesDoNothing ==
    [][ /\ is_gateway_enabled(Client) <=> ~Disabled
        /\ (Handled /\ ev'.op \in ClientOps /\ Disabled)
            => /\ ev'.res = "fail"
               /\ ev'.connects = 0
               /\ ev'.tries = 0
               /\ connected' = connected
               /\ consecutive_errors' = consecutive_errors ]_vars

\* C20: a write_zone_setpoint made while the client is enabled attempts at
\* most max_retries device writes; it succeeds exactly when the connection is
\* there or is established and one of the attempts succeeds, and then stops at
\* the first such attempt and leaves consecutive_errors = 0; otherwise it
\* returns failure, sets last_error_time to the present time and adds exactly
\* one to consecutive_errors.
C20_BoundedWriteAttempts ==
    [][ (Handled /\ ev'.op = "wt_setpoint" /\ ~Disabled)
            => /\ ev'.tries <= ev'.max_retries
               /\ ev'.res = "ok" <=> (connected' /\ ev'.nfail < ev'.max_retries)
               /\ ev'.res = "ok"
                    => /\ ev'.tries = ev'.nfail + 1
                       /\ consecutive_errors' = 0
                       /\ last_error_time' = last_error_time
               /\ ev'.res = "fail"
                    => /\ connected' => ev'.tries = ev'.max_retries
                       /\ ~connected' => ev'.tries = 0 /\ ev'.connects = 1
                       /\ consecutive_errors' = consecutive_errors + 1
                       /\ last_error_time' = now ]_vars

C20_Witness ==
    /\ ev.op = "wt_setpoint"
    /\ ev.res = "fail"
    /\ ev.max_retries = default_max_retries
    /\ ev.tries = default_max_retries
    /\ consecutive_errors = max_consecutive_errors
    /\ last_error_time = now

\* ---- properties of the codec -------------------------------------------------
PackedInDomain ==
    /\ Handled
    /\ ev'.op = "pack_dpt9001"
    /\ ev'.input = "number"
    /\ DPT9001_MIN_VALUE <= ev'.vals[1]
    /\ ev'.vals[1] <= DPT9001_MAX_VALUE

\* C23 as stated: for every value of the codec's range, in steps of 0.01, the
\* value unpacked from the packed value differs from it by at most half the
\* resolution 0.01 * 2^e at the exponent e that pack_dpt9001 chose.
C23_RoundTripHalfResolution ==
    [][PackedInDomain /\ ev'.res = "ok" =>
          2 * Abs(unpack_dpt9001(ev'.ret[1]) - ev'.vals[1])
              <= 2 ^ exponent(ev'.ret[1])]_vars

\* C23, amended: for every value of the codec's range, in steps of 0.01, the
\* value unpacked from the packed value is at most the value and less than one
\* resolution step 0.01 * 2^e below it, e the exponent that pack_dpt9001 chose.
C23_RoundTripWithinResolution ==
    [][PackedInDomain /\ ev'.res = "ok" =>
          /\ unpack_dpt9001(ev'.ret[1]) <= ev'.vals[1]
          /\ ev'.vals[1] - unpack_dpt9001(ev'.ret[1])
                < 2 ^ exponent(ev'.ret[1])]_vars

\* C23: a value packed at exponent 2 comes back three hundredths lower
C23_Witness ==
    /\ ev.op = "pack_dpt9001"
    /\ ev.res = "ok"
    /\ exponent(ev.ret[1]) = 2
    /\ ev.vals[1] - unpack_dpt9001(ev.ret[1]) = 3

C25_ZoneAddressOrValidationError ==
    [][Handled /\ ev'.op = "zone_address" =>
          LET base_id == ev'.vals[1]
              zone_id == ev'.vals[2]
          IN  IF base_id \in 1..4 /\ zone_id \in 1..12
              THEN /\ ev'.res = "ok"
                   /\ ev'.ret = <<(base_id - 1) * 1200 + zone_id * 100>>
              ELSE /\ ev'.res = "validation_error"
                   /\ ~ev'.invoked
                   /\ UNCHANGED <<cbVars, dbVars, db_down, block_values>>]_vars

\* C25: zone 12 of base 4 resolved to 4800
C25_Witness ==
    /\ ev.op = "zone_address"
    /\ ev.vals = <<4, 12>>
    /\ ev.res = "ok"
    /\ ev.ret = <<4800>>

\* C26: the address of a mixed group is resolved exactly for ids 1, 2, 3 (to
\* 10, 14, 18), that of a dehumidifier exactly for ids 1..9 (to id + 21), that
\* of a pump exactly for ids 1..5 (to id + 30); every other id, zero and the
\* negative ones included, is refused with a validation error and reaches no
\* register access.
C26_DeviceAddressOrValidationError ==
    [][/\ Handled /\ ev'.op = "mixed_group_address" =>
            IF ev'.vals[1] \in {1, 2, 3}
            THEN /\ ev'.res = "ok"
                 /\ ev'.ret = <<6 + 4 * ev'.vals[1]>>
            ELSE ev'.res = "validation_error" /\ ~ev'.invoked
       /\ Handled /\ ev'.op = "dehumidifier_address" =>
            IF ev'.vals[1] \in 1..9
            THEN ev'.res = "ok" /\ ev'.ret = <<ev'.vals[1] + 21>>
            ELSE ev'.res = "validation_error" /\ ~ev'.invoked
       /\ Handled /\ ev'.op = "pump_address" =>
            IF ev'.vals[1] \in 1..5
            THEN ev'.res = "ok" /\ ev'.ret = <<ev'.vals[1] + 30>>
            ELSE ev'.res = "validation_error" /\ ~ev'.invoked]_vars

\* ---- properties of the zone service -------------------------------------------
SetpointUpdated ==
    /\ Handled
    /\ ev'.op = "update_zone_data"
    /\ ev'.mirror # "none"

\* C21: an update of a zone's setpoint returns as soon as the value is stored
\* locally: the handler waits for no connection attempt and no device write
\* of the write-through client, whose write-through runs as a unit of work of
\* its own, after or beside the return.
C21_MirrorDispatchedNotAwaited ==
    [][SetpointUpdated =>
          /\ ev'.mirror = "dispatched"
          /\ ev'.connects = 0
          /\ ev'.tries = 0]_vars

\* the store after the step
StoreAfter ==
    [healthy |-> connection_healthy', last |-> last_health_check', db |-> db',
     fb |-> fb_data', dirty |-> fb_dirty']

\* C22: whatever the outcome of the write-through (success, failure, an
\* exception), the update of the zone returns success and the local register
\* holds the new setpoint: the data block has it and a read of the register
\* through the server context returns it.
C22_MirrorNeverFailsUpdate ==
    [][SetpointUpdated =>
          /\ ev'.res = "ok"
          /\ block_values'[ev'.addr] = ev'.vals[1]
          /\ getValues(StoreAfter, block_values', ev'.addr, 1, Calm).ret = ev'.vals]_vars

\* C22: the write-through raised, the update returned success and the
\* register holds the new setpoint
C22_Witness ==
    /\ ev.op = "update_zone_data"
    /\ ev.mirror = "inline_raised"
    /\ ev.res = "ok"
    /\ ev.vals = <<1>>
    /\ block_values[ev.addr] = 1

\* ---- properties of the Modbus server -------------------------------------------
MasterOps == {"master_read", "master_write"}

\* C27: every read or write of an external master goes through the gateway's
\* read or write path: it is gated and counted by the CircuitBreaker (refused
\* by it while it rejects calls, without touching the data block, and run
\* through CircuitBreaker.call otherwise); no access of a master reaches the
\* registers past the gateway.
C27_MasterAccessThroughGateway ==
    [][Handled /\ ev'.op \in MasterOps =>
          IF rejects(Breaker)
          THEN /\ ev'.cb = "circuit_open"
               /\ ~ev'.invoked
               /\ UNCHANGED block_values
          ELSE /\ ev'.cb \in {"ok", "fail"}
               /\ ev'.invoked]_vars

\* ---- properties of the gateway's reads -----------------------------------------
\* C28: when the bus read raises while the breaker is CLOSED or HALF_OPEN,
\* read_registers(addr, count) returns the values the register store holds,
\* and the bus error does not reach the caller.
C28_BusFailureServedFromStore ==
    [][Handled /\ ev'.op = "read" /\ ev'.invoked /\ ev'.cb = "fail" =>
          /\ ev'.res = "ok"
          /\ ServedFromStore]_vars

\* the value the register store holds for address a: the fallback's if it has
\* one (with the fallback enabled every set goes there too), else the durable
\* layer's
Entry(D, F, a) ==
    IF enable_fallback /\ a \in DOMAIN F THEN F[a] ELSE D[a]

C30_FallbackServesDuringFailure ==
    /\ (enable_fallback /\ db_down /\ ev.op = "get" /\ ev.addr \in DOMAIN last_set)
          => /\ ev.res = "ok"
             /\ ev.ret = <<last_set[ev.addr]>>
    /\ (enable_fallback /\ db_down /\ ev.op = "set")
          => /\ ev.res = "ok"
             /\ ev.addr \in DOMAIN fb_data
             /\ fb_data[ev.addr] = ev.vals[1]

\* C30: during a failure get returned a value set while the durable layer was
\* healthy, and the fallback holds a value set during the failure
C30_Witness ==
    /\ enable_fallback
    /\ db_down
    /\ ev.op = "get"
    /\ ev.addr \in DOMAIN last_set
    /\ ev.addr \notin outage
    /\ ev.ret = <<1>>
    /\ \E b \in outage : b \in DOMAIN fb_data /\ fb_data[b] = 1


\* ---- properties of the store called from several threads -------------------
\* C31: the operations of the store made from several threads are serialized:
\* every get_registers and set_registers returns what, and leaves the store as,
\* the whole operation run in one step on the store it found when it took the
\* lock does.  So a get_range that overlaps a concurrent set_range returns
\* all old or all new values, and two concurrent set_range calls leave the
\* store as running one after the other does.
C31_StoreOperationsSerialized ==
    [][\A t \in Threads :
          (st[t].at = "locked" /\ st'[t] = NoCall) =>
              LET c == st[t]
                  R == IF c.r.op = "get_range"
                       THEN get_registers(c.S0, c.r.addr, c.r.count, c.e)
                       ELSE set_registers(c.S0, c.r.addr, c.r.vals, c.e)
              IN  /\ StoreAfter = R.S
                  /\ ev'.ret = R.ret
                  /\ ev'.res = (IF R.res = "ok" THEN "ok" ELSE "db_error")]_vars

\* a get_range of both registers has returned the values of the set_range
\* before it, all of them, while a set_range of other values to the same
\* registers by another thread waits for the lock
C31_Witness ==
    /\ ev.op = "get_range"
    /\ ev.count = NumRegs
    /\ ev.res = "ok"
    /\ ev.ret = [i \in 1..NumRegs |-> 1]
    /\ \E u \in Threads :
          /\ st[u].at = "waiting"
          /\ st[u].r.op = "set_range"
          /\ st[u].r.vals = [i \in 1..NumRegs |-> 0]

\* ---- properties of the slave identities --------------------------------------
\* C32: the secondary slave presents the register state of the primary: the
\* values an external master writes to the secondary slave are in the register
\* store when the write has been served, and a read addressed to either slave
\* returns what the same read addressed to the other returns.
C32_SecondarySharesRegisters ==
    [][ /\ (Handled /\ ev'.op = "secondary_write") =>
              \A i \in 1..Len(ev'.vals) :
                  Persisted(db', fb_data', ev'.addr + i - 1, ev'.vals[i])
        /\ (Handled /\ ev'.op = "secondary_read") =>
              ev'.ret = getValues(Store, block_values, ev'.addr, ev'.count, Calm).ret
        /\ (Handled /\ ev'.op = "master_read") =>
              ev'.ret = block_get(block_secondary, ev'.addr, ev'.count) ]_vars

\* ---- properties of the classification of read addresses ----------------------
\* the registers of the valid zones: the address of every zone that get_zone
\* resolves, plus the offsets of its state, setpoint, temperature and humidity
ZoneRegisters ==
    {zone_address(b, z).address[1] + o :
        b \in {x \in Ids : validate_base_id(x)},
        z \in {x \in Ids : validate_zone_id(x)},
        o \in {0, ZONE_SETPOINT_ADDR_OFFSET, ZONE_TEMP_ADDR_OFFSET, ZONE_RH_ADDR_OFFSET}}

\* C33: the read validation classifies an address as a zone register exactly
\* when it is the address of a valid zone (base_id 1..4, zone_id 1..12) plus
\* an offset in {0, 1, 2, 10}.
C33_ZoneRegistersClassified ==
    [][Handled /\ ev'.op = "is_zone_register" =>
          (ev'.res = "zone" <=> ev'.addr \in ZoneRegisters)]_vars

\* ---- properties of the gateway called from several threads --------------------
\* the calls of the gateway in flight, and those that wait for a lock that
\* another thread holds
InFlight == {t \in Threads : gw[t] # NoCall}

Blocked(t) ==
    \/ gw[t].at = "sync_call" /\ ~MgrLockFree(t)
    \/ gw[t].at = "call" /\ ~LockFree(t)
    \/ gw[t].at = "func" /\ ~MgrLockFree(t)

\* C34: concurrent calls of the gateway never deadlock: with one thread in
\* sync_from_bus and others in read_registers or write_registers, whenever
\* calls are in flight at least one of them is not waiting for a lock that
\* another holds, so that every call can return or raise.
C34_NoDeadlock ==
    InFlight # {} => \E t \in InFlight : ~Blocked(t)

\* ---- properties of the fallback's dirty flag -----------------------------------
\* the durable operation of the store operation just completed succeeded: an
\* attempt was made and the environment let one of the attempts succeed
DurableSucceeded ==
    /\ ~db_down
    /\ ev'.tries > 0
    /\ ev'.nfail < max_attempts

\* C35: a set or set_range whose durable operation succeeds neither writes an
\* entry into the in-memory fallback nor marks it dirty (the flag stands for
\* unsynced writes only), so that the fallback stays empty and clean while
\* every durable operation succeeds.
C35_DurableSetLeavesFallback ==
    [][Handled /\ ev'.op \in {"set", "set_range"} /\ DurableSucceeded =>
          /\ fb_data' = fb_data
          /\ fb_dirty' => fb_dirty]_vars

\* ---- properties of the breaker's transitions -----------------------------------
\* the edges of the transition table
Edges ==
    {<<CLOSED, OPEN>>, <<OPEN, HALF_OPEN>>, <<HALF_OPEN, CLOSED>>, <<HALF_OPEN, OPEN>>}

\* C36: the state of the breaker changes only along CLOSED to OPEN, OPEN to
\* HALF_OPEN, HALF_OPEN to CLOSED and HALF_OPEN to OPEN: never from CLOSED to
\* HALF_OPEN, nor from OPEN to CLOSED without passing through HALF_OPEN.
C36_TransitionsAlongTable ==
    [][state' # state => <<state, state'>> \in Edges]_vars

\* the breaker is CLOSED again after it went OPEN at the threshold, failed a
\* trial in HALF_OPEN and then passed its trials: every edge has been taken
C36_Witness ==
    /\ state = CLOSED
    /\ open_cause = "half_open"

\* C39: in every state of the breaker, CLOSED implies failure_count <
\* failure_threshold, and HALF_OPEN implies that the counter of half-open
\* successes is below half_open_max_calls.
C39_CountersBelowLimits ==
    /\ state = CLOSED => failure_count < failure_threshold
    /\ state = HALF_OPEN => half_open_calls < half_open_max_calls

\* the breaker at the edge of the second case: in HALF_OPEN after it opened at
\* the threshold, one success short of closing, the failures still counted
C39_Witness ==
    /\ state = HALF_OPEN
    /\ half_open_calls = half_open_max_calls - 1
    /\ failure_count >= failure_threshold

\* ---- properties of the breaker's recovery --------------------------------------
\* the step ends a call whose wrapped operation failed
OperationFails == Handled /\ ev'.cb = "fail"

\* C37: if from some point on every wrapped operation succeeds, while time
\* keeps advancing and callers keep calling, a breaker that is OPEN eventually
\* is CLOSED with failure_count = 0.
C37_RecoveryIsLive ==
    <>[][~OperationFails]_vars => (state = OPEN ~> (state = CLOSED /\ failure_count = 0))

\* the breaker has recovered: CLOSED with no failure counted, after it had
\* gone OPEN at the threshold, the last call having succeeded
C37_Witness ==
    /\ state = CLOSED
    /\ failure_count = 0
    /\ open_cause = "threshold"
    /\ ev.cb = "ok"

\* ---- properties of the error policy ------------------------------------------
\* the fallback policy has disabled write-through
PolicyDisabled ==
    /\ disable_write_through_on_error
    /\ consecutive_errors >= max_consecutive_errors

\* C38: once the fallback policy has disabled write-through (policy active
\* and consecutive_errors >= max_consecutive_errors) it stays disabled: no
\* later write of a setpoint or of a zone state attempts a connection or a
\* device write, and consecutive_errors never decreases again.
C38_PolicyDisabledForGood ==
    [][ PolicyDisabled
            => /\ PolicyDisabled'
               /\ consecutive_errors' >= consecutive_errors
               /\ (Handled /\ ev'.op \in ClientOps)
                    => ev'.connects = 0 /\ ev'.tries = 0 ]_vars

====
